---- MODULE Spec2Model ----
(***************************************************************************)
(* Model of the TextSentiment semantic-search service: the record write    *)
(* path (add / update / delete against the MongoDB collection with its     *)
(* unique index on title_lower), the Ollama embedding client with its      *)
(* retry loop, and the search handler with Bible-citation resolution.      *)
(*                                                                         *)
(* Text is modelled as a sequence of one-character strings so that         *)
(* str.strip(), str.lower(), ObjectId(...) and the citation regexes are    *)
(* computed, not assumed.                                                  *)
(***************************************************************************)
EXTENDS Integers, Sequences, FiniteSets, TLC

(***************************************************************************)
(* Bounds of the model.                                                    *)
(***************************************************************************)
MaxDocs == 2         \* documents the store ever assigns an id to
MaxRetries == 2      \* largest retries argument tried on a direct embed call
ObjectIdLen == 3     \* hex digits in an ObjectId string (24 in bson)
MaxRankDocs == 3     \* documents of the small collections that are ranked
MaxComponent == 3    \* largest component of a vector handed to the cosine
MaxDim == 2          \* largest length of a vector handed to the cosine

\* the requests in flight: two writers racing, both past the title check before either writes
Tasks == {1, 2}

(***************************************************************************)
(* Strings.                                                                *)
(***************************************************************************)
\* str.lower(): pairs <<upper, lower>> of the cased characters in use
CasePairs ==
  << <<"S", "s">>, <<"A", "a">>, <<"B", "b">>, <<"C", "c">>,
     <<"D", "d">>, <<"E", "e">>, <<"F", "f">>, <<"J", "j">>,
     <<"O", "o">>, <<"Ó", "ó">>, <<"X", "x">>, <<"T", "t">>,
     <<"Ã", "ã">> >>

LowerChar(c) ==
  IF \E i \in DOMAIN CasePairs : CasePairs[i][1] = c
  THEN CasePairs[CHOOSE i \in DOMAIN CasePairs : CasePairs[i][1] = c][2]
  ELSE c

UpperChar(c) ==
  IF \E i \in DOMAIN CasePairs : CasePairs[i][2] = c
  THEN CasePairs[CHOOSE i \in DOMAIN CasePairs : CasePairs[i][2] = c][1]
  ELSE c

Lower(s) == [i \in DOMAIN s |-> LowerChar(s[i])]

Upper(s) == [i \in DOMAIN s |-> UpperChar(s[i])]

IsSpace(c) == c = " "

RECURSIVE LStrip(_)
LStrip(s) == IF s # <<>> /\ IsSpace(Head(s)) THEN LStrip(Tail(s)) ELSE s

RECURSIVE RStrip(_)
RStrip(s) ==
  IF s # <<>> /\ IsSpace(s[Len(s)]) THEN RStrip(SubSeq(s, 1, Len(s) - 1)) ELSE s

\* str.strip()
Strip(s) == RStrip(LStrip(s))

TitleStripped(title) == Strip(title)

\* the key both the check and the writes compute: title.lower().strip()
TitleLower(title) == Strip(Lower(title))

(***************************************************************************)
(* ObjectId: the store assigns lower-case hex ids; ObjectId(s) accepts a   *)
(* hex string of the right length in either case, str(oid) prints lower    *)
(* case.                                                                   *)
(***************************************************************************)
HexLower == <<"a", "b", "c", "d", "e", "f">>

HexChars == {HexLower[i] : i \in DOMAIN HexLower}
              \cup {UpperChar(HexLower[i]) : i \in DOMAIN HexLower}

HexIndex(c) == CHOOSE n \in DOMAIN HexLower : HexLower[n] = c

RECURSIVE Power(_, _)
Power(b, k) == IF k = 0 THEN 1 ELSE b * Power(b, k - 1)

\* the n-th id the store hands out: ids grow with the time of creation
NewObjectId(n) ==
  [i \in 1..ObjectIdLen |->
     HexLower[(((n - 1) \div Power(Len(HexLower), ObjectIdLen - i))
                 % Len(HexLower)) + 1]]

ObjectIdValid(s) == Len(s) = ObjectIdLen /\ \A i \in DOMAIN s : s[i] \in HexChars

\* ObjectId(record_id) followed by str(): bytes.fromhex then hexlify
ObjectIdOf(s) == Lower(s)

NoId == <<>>

(***************************************************************************)
(* Inputs.                                                                 *)
(***************************************************************************)
\* raw titles: blank ones, spellings of one title that differ in case and
\* surrounding whitespace, and a second title
TitleInputs ==
  {<<>>, <<" ">>, <<"s">>, <<"S">>, <<" ", "S">>, <<"s", " ">>,
   <<" ", "S", " ">>, <<"t">>}

ContentInputs == {<<>>, <<" ">>, <<"x">>, <<" ", "x">>}

\* ids a client may put in the URL: every id the store can assign, as
\* printed and in upper case, and a string that is not hex
RecordIdInputs ==
  {NewObjectId(n) : n \in 1..MaxDocs}
    \cup {Upper(NewObjectId(n)) : n \in 1..MaxDocs}
    \cup {[i \in 1..ObjectIdLen |-> "g"]}

\* vectors the provider may answer with
Vectors == {<<1, 0>>, <<0, 1>>}

\* search queries: blank, free text, citations in both grammars with known
\* and unknown book names, in several spellings
QueryInputs ==
  {<<>>, <<" ">>, <<"x">>, <<" ", "x", " ">>,
   <<"j", "o", " ", "1", ",", "2">>,
   <<" ", "J", "Ó", " ", " ", "1", ":", "2">>,
   <<"j", "o", " ", "1", " ", "2", " ">>,
   <<"x", " ", "1", ".", "2">>,
   <<"x", " ", "1", " ", "2">>,
   <<"j", "o", "1", ",", "2">>}

SearchLimit == 10

MinLimit == 1

MaxLimit == 100

\* query vectors handed to search_similar, the empty and the zero vector
\* among them
QueryVectors == Vectors \cup {<<1, 1>>, <<0, 0>>, <<>>}

\* limits a caller may pass: below, inside and above the range 1..100
LimitInputs == {-1, 0, 1, 2, SearchLimit, MaxLimit, MaxLimit + 1}

\* vectors a caller may hand to the cosine: the empty vector, zero vectors,
\* vectors with a negative component
CosineVectors ==
  UNION {[1..k -> (0 - 1)..MaxComponent] : k \in 0..MaxDim}

\* texts the verse API may answer with
VerseTexts == {<<"v">>, <<"v", " ">>, <<" ">>}

(***************************************************************************)
(* Floating point.  numpy computes the similarity in IEEE binary64, with   *)
(* the norm of a float32 array rounded to binary32.  A float is            *)
(* s * m * 2^e with the mantissa m a natural of exactly Float64Bits bits,  *)
(* kept as a sequence of limbs, least significant first.                   *)
(***************************************************************************)
\* bits of precision of a float32 (the dtype of the array made by
\* generate_embedding) and of a float64 (the dtype numpy gives an array
\* made from a list of Python numbers)
Float32Bits == 24

Float64Bits == 53

LimbBase == Power(2, 15)

RECURSIVE Big(_)
Big(n) == IF n = 0 THEN <<>> ELSE <<n % LimbBase>> \o Big(n \div LimbBase)

RECURSIVE BigNorm(_)
BigNorm(a) ==
  IF a # <<>> /\ a[Len(a)] = 0 THEN BigNorm(SubSeq(a, 1, Len(a) - 1)) ELSE a

RECURSIVE BigCmp(_, _)
BigCmp(a, b) ==
  IF Len(a) # Len(b) THEN (IF Len(a) < Len(b) THEN -1 ELSE 1)
  ELSE IF a = <<>> THEN 0
  ELSE IF a[Len(a)] # b[Len(b)]
       THEN (IF a[Len(a)] < b[Len(b)] THEN -1 ELSE 1)
       ELSE BigCmp(SubSeq(a, 1, Len(a) - 1), SubSeq(b, 1, Len(b) - 1))

RECURSIVE BigAddCarry(_, _, _)
BigAddCarry(a, b, c) ==
  IF a = <<>> /\ b = <<>> THEN Big(c)
  ELSE LET t == (IF a = <<>> THEN 0 ELSE a[1]) + (IF b = <<>> THEN 0 ELSE b[1]) + c
       IN <<t % LimbBase>>
            \o BigAddCarry(IF a = <<>> THEN a ELSE Tail(a),
                           IF b = <<>> THEN b ELSE Tail(b), t \div LimbBase)

BigAdd(a, b) == BigAddCarry(a, b, 0)

\* a - b for a >= b
RECURSIVE BigSubBorrow(_, _, _)
BigSubBorrow(a, b, c) ==
  IF a = <<>> THEN <<>>
  ELSE LET t == a[1] - (IF b = <<>> THEN 0 ELSE b[1]) - c
       IN <<(t + LimbBase) % LimbBase>>
            \o BigSubBorrow(Tail(a), IF b = <<>> THEN b ELSE Tail(b),
                            IF t < 0 THEN 1 ELSE 0)

BigSub(a, b) == BigNorm(BigSubBorrow(a, b, 0))

\* a * k + c for k below the base
RECURSIVE BigMulSmall(_, _, _)
BigMulSmall(a, k, c) ==
  IF a = <<>> THEN Big(c)
  ELSE LET t == a[1] * k + c
       IN <<t % LimbBase>> \o BigMulSmall(Tail(a), k, t \div LimbBase)

RECURSIVE BigMul(_, _)
BigMul(a, b) ==
  IF a = <<>> \/ b = <<>> THEN <<>>
  ELSE BigNorm(BigAdd(BigMulSmall(a, b[1], 0), <<0>> \o BigMul(a, Tail(b))))

\* floor(a / k) for k below the base, from the most significant limb
RECURSIVE BigDivSmall(_, _, _)
BigDivSmall(a, k, r) ==
  IF a = <<>> THEN <<>>
  ELSE LET t == r * LimbBase + a[Len(a)]
       IN Append(BigDivSmall(SubSeq(a, 1, Len(a) - 1), k, t % k), t \div k)

RECURSIVE SmallBitLen(_)
SmallBitLen(n) == IF n = 0 THEN 0 ELSE 1 + SmallBitLen(n \div 2)

LimbBits == SmallBitLen(LimbBase - 1)

BitLen(a) ==
  IF a = <<>> THEN 0 ELSE LimbBits * (Len(a) - 1) + SmallBitLen(a[Len(a)])

\* a * 2^n
BigShl(a, n) ==
  IF a = <<>> THEN <<>>
  ELSE [i \in 1..(n \div LimbBits) |-> 0]
         \o BigMulSmall(a, Power(2, n % LimbBits), 0)

\* floor(a / 2^n)
BigShr(a, n) ==
  IF n \div LimbBits >= Len(a) THEN <<>>
  ELSE BigNorm(BigDivSmall(SubSeq(a, n \div LimbBits + 1, Len(a)),
                           Power(2, n % LimbBits), 0))

\* floor(sqrt(n)): r with the bits from bit downwards set where the square
\* stays <= n
RECURSIVE BigSqrtFrom(_, _, _)
BigSqrtFrom(n, r, bit) ==
  IF bit < 0 THEN r
  ELSE LET t == BigAdd(r, BigShl(<<1>>, bit))
       IN IF BigCmp(BigMul(t, t), n) <= 0
          THEN BigSqrtFrom(n, t, bit - 1)
          ELSE BigSqrtFrom(n, r, bit - 1)

BigSqrt(n) == BigSqrtFrom(n, <<>>, BitLen(n) \div 2)

\* floor(a / b): q with the bits from bit downwards set where q * b stays
\* <= a
RECURSIVE BigDivFrom(_, _, _, _)
BigDivFrom(a, b, q, bit) ==
  IF bit < 0 THEN q
  ELSE LET t == BigAdd(q, BigShl(<<1>>, bit))
       IN IF BigCmp(BigMul(t, b), a) <= 0
          THEN BigDivFrom(a, b, t, bit - 1)
          ELSE BigDivFrom(a, b, q, bit - 1)

BigDiv(a, b) == BigDivFrom(a, b, <<>>, BitLen(a) - BitLen(b) + 1)

\* 0.0
ZeroScore == [s |-> 0, m |-> <<>>, e |-> 0]

\* m * 2^e (plus a fraction below the last bit of m, if inexact) rounded to
\* bits bits, to nearest and to even on a tie
RoundBig(m, e, bits, inexact) ==
  IF BitLen(m) <= bits THEN [m |-> m, e |-> e]
  ELSE LET sh == BitLen(m) - bits
           q == BigShr(m, sh)
           c == BigCmp(BigSub(m, BigShl(q, sh)), BigShl(<<1>>, sh - 1))
           up == c > 0 \/ (c = 0 /\ (inexact \/ q[1] % 2 = 1))
       IN [m |-> IF up THEN BigAdd(q, <<1>>) ELSE q, e |-> e + sh]

\* the float s * m * 2^e with its mantissa brought to Float64Bits bits
Float(s, m, e) ==
  IF m = <<>> \/ s = 0 THEN ZeroScore
  ELSE IF BitLen(m) < Float64Bits
       THEN [s |-> s, m |-> BigShl(m, Float64Bits - BitLen(m)),
             e |-> e - (Float64Bits - BitLen(m))]
       ELSE [s |-> s, m |-> BigShr(m, BitLen(m) - Float64Bits),
             e |-> e + (BitLen(m) - Float64Bits)]

\* sqrt(n) for a natural n > 0, correctly rounded to bits bits
FloatSqrt(n, bits) ==
  LET scaled == BigShl(Big(n), 2 * (bits + 2))
      r == BigSqrt(scaled)
      rd == RoundBig(r, 0 - (bits + 2), bits, BigCmp(BigMul(r, r), scaled) # 0)
  IN Float(1, rd.m, rd.e)

\* x * y in binary64
FloatMul(x, y) ==
  LET rd == RoundBig(BigMul(x.m, y.m), x.e + y.e, Float64Bits, FALSE)
  IN Float(x.s * y.s, rd.m, rd.e)

Abs(n) == IF n < 0 THEN 0 - n ELSE n

Sign(n) == IF n < 0 THEN -1 ELSE IF n = 0 THEN 0 ELSE 1

\* d / y in binary64, for an integer d and a float y # 0
FloatDivInt(d, y) ==
  IF d = 0 THEN ZeroScore
  ELSE LET sh == 2 * Float64Bits + 2
           a == BigShl(Big(Abs(d)), sh)
           q == BigDiv(a, y.m)
           rd == RoundBig(q, 0 - sh - y.e, Float64Bits,
                          BigCmp(BigMul(q, y.m), a) # 0)
       IN Float(Sign(d) * y.s, rd.m, rd.e)

VARIABLES
  docs,      \* the text_records collection: _id -> document
  nextId,    \* number of the next ObjectId the store assigns
  task,      \* per request: handler-local variables and position
  emb        \* per request: the generate_embedding call in progress

vars == <<docs, nextId, task, emb>>

(***************************************************************************)
(* Values.                                                                 *)
(***************************************************************************)
\* a Python None, and an ndarray: neither carries anything but the vector
None == [ok |-> FALSE, vec |-> <<>>, cause |-> "none"]

Some(v) == [ok |-> TRUE, vec |-> v, cause |-> "none"]

NoResp == [status |-> 0, kind |-> "none", ref |-> NoId, echo |-> <<>>,
           search_text |-> <<>>, results |-> <<>>]

HTTPException(code, detail) ==
  [status |-> code, kind |-> detail, ref |-> NoId, echo |-> <<>>,
   search_text |-> <<>>, results |-> <<>>]

\* JSONResponse({"success": False, "duplicate_detected": True,
\*               "existing_record": {"id": ...}})
DuplicateResponse(id) ==
  [status |-> 200, kind |-> "duplicate_detected", ref |-> id, echo |-> <<>>,
   search_text |-> <<>>, results |-> <<>>]

\* JSONResponse({"success": True, ...})
SuccessResponse(id) ==
  [status |-> 200, kind |-> "success", ref |-> id, echo |-> <<>>,
   search_text |-> <<>>, results |-> <<>>]

IdleEmb == [pc |-> "idle", arg |-> <<>>, text |-> <<>>, retries |-> 0,
            attempt |-> 0, sent |-> <<>>, log |-> <<>>, ret |-> None]

NoVerse == [found |-> FALSE, text |-> <<>>, book_number |-> 0,
            chapter |-> 0, verse |-> 0]

\* the handler's variables.  raw is the query string as received, embedded
\* the argument of the handler's call of generate_embedding; calls, posts,
\* lookups and reads count those calls, the requests to the embedding
\* provider, the requests to the verse API and the scans of the collection;
\* vec1, dtype1, vec2 and similarity are the arguments and the result of a
\* call of _cosine_similarity
IdleTask ==
  [kind |-> "none", pc |-> "idle", title |-> <<>>, content |-> <<>>,
   record_id |-> NoId, raw |-> <<>>, query |-> <<>>, search_text |-> <<>>,
   bible_verse |-> NoVerse, embedding |-> None, resp |-> NoResp,
   limit |-> 0, cursor |-> <<>>, embedded |-> <<>>, citation_checks |-> 0,
   calls |-> 0, posts |-> 0, lookups |-> 0, reads |-> 0,
   store_error |-> "none", caught |-> "none",
   vec1 |-> <<>>, dtype1 |-> "none", vec2 |-> <<>>, similarity |-> ZeroScore]

(***************************************************************************)
(* The collection.                                                         *)
(***************************************************************************)
Ids == DOMAIN docs

\* rank of an id in insertion order
RECURSIVE IdValue(_)
IdValue(id) ==
  IF id = <<>> THEN 0
  ELSE Len(HexLower) * IdValue(SubSeq(id, 1, Len(id) - 1))
         + HexIndex(id[Len(id)]) - 1

IdRank(id) == IdValue(id) + 1

\* find_one({"title_lower": key}): the first match in natural order, or None
FindOneByTitleLower(key) ==
  LET hits == {id \in Ids : docs[id].title_lower = key}
  IN IF hits = {} THEN NoId
     ELSE CHOOSE id \in hits : \A o \in hits : IdRank(id) <= IdRank(o)

UniqueIndexOff(id, key) == TRUE

\* title_unique_index: a write that would leave document id with title_lower
\* key is admitted only if no other document has that key
UniqueIndexAllows(id, key) ==
  \A o \in Ids \ {id} : docs[o].title_lower # key

DocumentNoEmbedding(title, text, embedding) ==
  [title |-> title, title_lower |-> TitleLower(title),
   extracted_text |-> text, embedding |-> <<>>, has_embedding |-> FALSE]

\* the fields insert_record and update_record set, all in one write
Document(title, text, embedding) ==
  [title |-> title, title_lower |-> TitleLower(title),
   extracted_text |-> text, embedding |-> embedding.vec,
   has_embedding |-> TRUE]

MatchedAlways(id) == TRUE

\* the filter {"_id": ObjectId(record_id)} of update_one and delete_one
\* matches a stored document
Matched(id) == id \in Ids

Put(id, doc) == [o \in Ids \cup {id} |-> IF o = id THEN doc ELSE docs[o]]

Remove(id) == [o \in Ids \ {id} |-> docs[o]]

\* the handler returns: its response goes out, its working values are gone
Finish(p, r) ==
  task' = [task EXCEPT ![p] = [@ EXCEPT !.pc = "done", !.resp = r,
                                        !.content = <<>>, !.search_text = <<>>,
                                        !.embedding = None]]

Goto(p, l) == task' = [task EXCEPT ![p].pc = l]

(***************************************************************************)
(* EmbeddingService.generate_embedding                                     *)
(***************************************************************************)
DefaultRetries == 2

FirstTimeout == 180

RetryTimeout == 60

\* what one requests.post can end in: a 200 reply with an 'embedding' list
\* (possibly empty) or without one, another status, or an exception
ProviderReplies ==
  {[kind |-> "200", has |-> TRUE, vec |-> v] : v \in Vectors \cup {<<>>}}
    \cup {[kind |-> "200", has |-> FALSE, vec |-> <<>>],
          [kind |-> "status", has |-> FALSE, vec |-> <<>>],
          [kind |-> "Timeout", has |-> FALSE, vec |-> <<>>],
          [kind |-> "RequestException", has |-> FALSE, vec |-> <<>>]}

IsBlankNotStripped(text) == text = <<>>

\* "if not text or not text.strip()"
IsBlank(text) == text = <<>> \/ Strip(text) = <<>>

TimeoutAlwaysFirst(attempt) == FirstTimeout

\* "timeout = 180 if attempt == 0 else 60"
TimeoutFor(attempt) == IF attempt = 0 THEN FirstTimeout ELSE RetryTimeout

RetryOnceMore(attempt, retries) == attempt <= retries

RetryNever(attempt, retries) == attempt > retries

\* "if attempt < retries: continue", the same test in every failure branch
ShouldRetry(attempt, retries) == attempt < retries

\* np.array(data['embedding'], dtype=np.float32)
Parsed(r) == Some(r.vec)

RaisesOnTransportOnly(r) == r.kind \in {"Timeout", "RequestException"}

\* the reply makes the try block raise: the post itself raises, or the
\* body of a 200 reply has no 'embedding' to read
Raises(r) ==
  \/ r.kind \in {"Timeout", "RequestException"}
  \/ r.kind = "200" /\ ~r.has

\* the except clause (or the else branch) that handles the reply
Branch(r) ==
  IF r.kind = "200" /\ r.has THEN "ok"
  ELSE IF r.kind = "status" THEN "status"
  ELSE IF r.kind = "200" THEN "Exception"
  ELSE r.kind

\* the frame of a call generate_embedding(text, retries)
NewCall(text, retries) ==
  [pc |-> "entry", arg |-> text, text |-> text, retries |-> retries,
   attempt |-> 0, sent |-> <<>>, log |-> <<>>, ret |-> None]

\* lines 62-68: reject blank text, strip, enter the loop
Entered(e) ==
  IF IsBlank(e.text) THEN [e EXCEPT !.pc = "returned", !.ret = None]
  ELSE IF 0 < e.retries + 1
       THEN [e EXCEPT !.pc = "post", !.text = Strip(e.text)]
       ELSE [e EXCEPT !.pc = "returned", !.ret = None, !.text = Strip(e.text)]

\* lines 70-84: one request to /api/embeddings
Posted(e) ==
  [e EXCEPT !.pc = "await",
            !.sent = Append(@, [prompt |-> e.text,
                                timeout |-> TimeoutFor(e.attempt)])]

\* lines 87-117: the reply, and the decision to return or go round again
Replied(e, r) ==
  LET logged == [e EXCEPT !.log = Append(@, [kind |-> r.kind, has |-> r.has,
                                             vec |-> r.vec,
                                             branch |-> Branch(r)])]
  IN IF ~Raises(r) /\ r.kind = "200"
     THEN [logged EXCEPT !.pc = "returned", !.ret = Parsed(r)]
     ELSE IF ShouldRetry(e.attempt, e.retries)
          THEN [logged EXCEPT !.pc = "post", !.attempt = @ + 1]
          ELSE [logged EXCEPT !.pc = "returned", !.ret = None]

\* the whole call, run to its return against the replies the provider gives
\* to the first, second, ... request.  requests.post blocks the event loop,
\* so inside a handler the call is part of one step between two awaits
RECURSIVE RunCall(_, _)
RunCall(e, replies) ==
  IF e.pc = "returned" THEN e
  ELSE IF e.pc = "entry" THEN RunCall(Entered(e), replies)
  ELSE IF e.pc = "post" THEN RunCall(Posted(e), replies)
  ELSE RunCall(Replied(e, replies[Len(e.sent)]), replies)

ReplySeqs == [1..(DefaultRetries + 1) -> ProviderReplies]

\* generate_embedding(text) as the handlers call it
GenerateEmbedding(text, replies) ==
  RunCall(NewCall(text, DefaultRetries), replies)

\* the texts the handlers pass to generate_embedding
EmbedTexts ==
  {Strip(c) : c \in ContentInputs} \cup {Strip(q) : q \in QueryInputs}
    \cup VerseTexts

\* what a handler sees of its call: the value returned, and the provider the
\* number of requests made, over all the ways the provider can answer
CallOutcomes ==
  [text \in EmbedTexts |->
     {[ret |-> e.ret, posts |-> Len(e.sent)] :
        e \in {GenerateEmbedding(text, replies) : replies \in ReplySeqs}}]

\* a direct caller of generate_embedding (warm_up_model with retries = 0,
\* generate_embeddings_batch with the default), with the contents of the
\* write handlers or a text of two words between blanks
EmbedRequest(p) ==
  /\ task[p].pc = "idle"
  /\ \E text \in ContentInputs \cup {<<" ", "x", " ", "y", " ">>},
        retries \in 0..MaxRetries :
       /\ task' = [task EXCEPT ![p] = [IdleTask EXCEPT !.kind = "embed",
                                         !.pc = "embedding"]]
       /\ emb' = [emb EXCEPT ![p] = NewCall(text, retries)]
  /\ UNCHANGED <<docs, nextId>>

EmbedEntry(p) ==
  /\ emb[p].pc = "entry"
  /\ emb' = [emb EXCEPT ![p] = Entered(emb[p])]
  /\ UNCHANGED <<docs, nextId, task>>

EmbedPost(p) ==
  /\ emb[p].pc = "post"
  /\ emb' = [emb EXCEPT ![p] = Posted(emb[p])]
  /\ UNCHANGED <<docs, nextId, task>>

EmbedReply(p) ==
  /\ emb[p].pc = "await"
  /\ \E r \in ProviderReplies : emb' = [emb EXCEPT ![p] = Replied(emb[p], r)]
  /\ UNCHANGED <<docs, nextId, task>>

EmbedReturn(p) ==
  /\ task[p].kind = "embed"
  /\ task[p].pc = "embedding"
  /\ emb[p].pc = "returned"
  /\ task' = [task EXCEPT ![p].pc = "done"]
  /\ UNCHANGED <<docs, nextId, emb>>

\* the request is over; the task takes the next one
Reset(p) ==
  /\ task[p].pc = "done"
  /\ task' = [task EXCEPT ![p] = IdleTask]
  /\ emb' = [emb EXCEPT ![p] = IdleEmb]
  /\ UNCHANGED <<docs, nextId>>

(***************************************************************************)
(* add_record                                                              *)
(***************************************************************************)
InFlightAdds ==
  Cardinality({q \in Tasks : task[q].kind = "add" /\ task[q].pc \notin {"idle", "done"}})

\* lines 113-126: the request arrives, title and content are stripped and
\* must not be empty
AddValidate(p) ==
  /\ task[p].pc = "idle"
  /\ nextId + InFlightAdds <= MaxDocs
  /\ \E title \in TitleInputs, content \in ContentInputs :
       LET t == [IdleTask EXCEPT !.kind = "add", !.title = Strip(title),
                                 !.content = Strip(content)]
       IN task' = [task EXCEPT ![p] =
            IF t.title = <<>>
            THEN [t EXCEPT !.pc = "done", !.content = <<>>,
                           !.resp = HTTPException(400, "empty title")]
            ELSE IF t.content = <<>>
            THEN [t EXCEPT !.pc = "done",
                           !.resp = HTTPException(400, "empty content")]
            ELSE [t EXCEPT !.pc = "check"]]
  /\ UNCHANGED <<docs, nextId, emb>>

\* lines 128-147: check_title_exists, then the duplicate response, or
\* generate_embedding and, with a vector, on to the insert
AddCheck(p) ==
  /\ task[p].kind = "add"
  /\ task[p].pc = "check"
  /\ LET existing_record == FindOneByTitleLower(TitleLower(task[p].title))
     IN IF existing_record # NoId
        THEN Finish(p, DuplicateResponse(existing_record))
        ELSE \E e \in CallOutcomes[task[p].content] :
               IF ~e.ret.ok
               THEN task' = [task EXCEPT ![p] =
                      [@ EXCEPT !.pc = "done", !.calls = 1, !.content = <<>>,
                                !.resp = HTTPException(500, "embedding failed")]]
               ELSE task' = [task EXCEPT ![p].pc = "insert", ![p].calls = 1,
                                         ![p].embedding = e.ret]
  /\ UNCHANGED <<docs, nextId, emb>>

\* lines 149-169 and insert_record: insert_one commits, or the unique index
\* refuses it and the DuplicateKeyError is turned into the generic 500
AddInsert(p) ==
  /\ task[p].kind = "add"
  /\ task[p].pc = "insert"
  /\ LET id == NewObjectId(nextId)
         doc == Document(task[p].title, task[p].content, task[p].embedding)
     IN IF UniqueIndexAllows(id, doc.title_lower)
        THEN /\ docs' = Put(id, doc)
             /\ nextId' = nextId + 1
             /\ Finish(p, SuccessResponse(id))
        ELSE /\ Finish(p, HTTPException(500, "write failed"))
             /\ UNCHANGED <<docs, nextId>>
  /\ UNCHANGED emb

(***************************************************************************)
(* update_record                                                           *)
(***************************************************************************)
\* lines 297-308
UpdValidate(p) ==
  /\ task[p].pc = "idle"
  /\ \E record_id \in RecordIdInputs, title \in TitleInputs,
        content \in ContentInputs :
       LET t == [IdleTask EXCEPT !.kind = "update", !.record_id = record_id,
                                 !.title = Strip(title),
                                 !.content = Strip(content)]
       IN task' = [task EXCEPT ![p] =
            IF t.title = <<>>
            THEN [t EXCEPT !.pc = "done", !.content = <<>>,
                           !.resp = HTTPException(400, "empty title")]
            ELSE IF t.content = <<>>
            THEN [t EXCEPT !.pc = "done",
                           !.resp = HTTPException(400, "empty content")]
            ELSE [t EXCEPT !.pc = "exists"]]
  /\ UNCHANGED <<docs, nextId, emb>>

\* lines 310-313 and get_record_by_id: ObjectId(record_id) raises on a
\* string that is not an id, find_one finds the document or not
UpdExists(p) ==
  /\ task[p].kind = "update"
  /\ task[p].pc = "exists"
  /\ IF ~ObjectIdValid(task[p].record_id)
     THEN Finish(p, HTTPException(500, "write failed"))
     ELSE IF ObjectIdOf(task[p].record_id) \notin Ids
     THEN Finish(p, HTTPException(404, "not found"))
     ELSE Goto(p, "check")
  /\ UNCHANGED <<docs, nextId, emb>>

\* 'title_exists["id"] != record_id' negated: the id as the store prints it
\* against the id string of the URL
SameRecord(found, record_id) == found = record_id

\* lines 315-332: check_title_exists, then the duplicate response, or
\* generate_embedding and, with a vector, on to the update
UpdCheck(p) ==
  /\ task[p].kind = "update"
  /\ task[p].pc = "check"
  /\ LET title_exists == FindOneByTitleLower(TitleLower(task[p].title))
     IN IF title_exists # NoId /\ ~SameRecord(title_exists, task[p].record_id)
        THEN Finish(p, DuplicateResponse(title_exists))
        ELSE \E e \in CallOutcomes[task[p].content] :
               IF ~e.ret.ok
               THEN task' = [task EXCEPT ![p] =
                      [@ EXCEPT !.pc = "done", !.calls = 1, !.content = <<>>,
                                !.resp = HTTPException(500, "embedding failed")]]
               ELSE task' = [task EXCEPT ![p].pc = "write", ![p].calls = 1,
                                         ![p].embedding = e.ret]
  /\ UNCHANGED <<docs, nextId, emb>>

\* lines 334-345 and MongoDatabase.update_record: update_one modifies the
\* document, matches none, or is refused by the unique index
UpdWrite(p) ==
  /\ task[p].kind = "update"
  /\ task[p].pc = "write"
  /\ LET id == ObjectIdOf(task[p].record_id)
         doc == Document(task[p].title, task[p].content, task[p].embedding)
     IN IF ~Matched(id)
        THEN /\ Finish(p, HTTPException(404, "not found"))
             /\ UNCHANGED docs
        ELSE IF UniqueIndexAllows(id, doc.title_lower)
        THEN /\ docs' = Put(id, doc)
             /\ Finish(p, SuccessResponse(id))
        ELSE /\ Finish(p, HTTPException(500, "write failed"))
             /\ UNCHANGED docs
  /\ UNCHANGED <<nextId, emb>>

(***************************************************************************)
(* delete_record                                                           *)
(***************************************************************************)
\* lines 347-361 and MongoDatabase.delete_record
DeleteRecord(p) ==
  /\ task[p].pc = "idle"
  /\ \E record_id \in RecordIdInputs :
       LET t == [IdleTask EXCEPT !.kind = "delete", !.record_id = record_id,
                                 !.pc = "done"]
           id == ObjectIdOf(record_id)
       IN IF ~ObjectIdValid(record_id)
          THEN /\ task' = [task EXCEPT ![p] =
                     [t EXCEPT !.resp = HTTPException(500, "write failed")]]
               /\ UNCHANGED docs
          ELSE IF Matched(id)
          THEN /\ task' = [task EXCEPT ![p] = [t EXCEPT !.resp = SuccessResponse(id)]]
               /\ docs' = Remove(id)
          ELSE /\ task' = [task EXCEPT ![p] =
                     [t EXCEPT !.resp = HTTPException(404, "not found")]]
               /\ UNCHANGED docs
  /\ UNCHANGED <<nextId, emb>>

(***************************************************************************)
(* BibleService                                                            *)
(***************************************************************************)
\* book_mapping, the entries of the dict literal in the order written
BookMappingEntries ==
  <<
     <<<<"g", "e", "n", "e", "s", "i", "s">>, 1>>,
     <<<<"g", "ê", "n", "e", "s", "i", "s">>, 1>>,
     <<<<"g", "n">>, 1>>,
     <<<<"e", "x", "o", "d", "o">>, 2>>,
     <<<<"ê", "x", "o", "d", "o">>, 2>>,
     <<<<"e", "x">>, 2>>,
     <<<<"l", "e", "v", "i", "t", "i", "c", "o">>, 3>>,
     <<<<"l", "e", "v", "í", "t", "i", "c", "o">>, 3>>,
     <<<<"l", "v">>, 3>>,
     <<<<"n", "u", "m", "e", "r", "o", "s">>, 4>>,
     <<<<"n", "ú", "m", "e", "r", "o", "s">>, 4>>,
     <<<<"n", "m">>, 4>>,
     <<<<"d", "e", "u", "t", "e", "r", "o", "n", "o", "m", "i", "o">>, 5>>,
     <<<<"d", "e", "u", "t", "e", "r", "o", "n", "ô", "m", "i", "o">>, 5>>,
     <<<<"d", "t">>, 5>>,
     <<<<"j", "o", "s", "u", "e">>, 6>>,
     <<<<"j", "o", "s", "u", "é">>, 6>>,
     <<<<"j", "s">>, 6>>,
     <<<<"j", "u", "i", "z", "e", "s">>, 7>>,
     <<<<"j", "u", "í", "z", "e", "s">>, 7>>,
     <<<<"j", "z">>, 7>>,
     <<<<"r", "u", "t", "e">>, 8>>,
     <<<<"r", "t">>, 8>>,
     <<<<"1", " ", "s", "a", "m", "u", "e", "l">>, 9>>,
     <<<<"1", "s", "a", "m", "u", "e", "l">>, 9>>,
     <<<<"1", "s", "m">>, 9>>,
     <<<<"1", " ", "s", "m">>, 9>>,
     <<<<"2", " ", "s", "a", "m", "u", "e", "l">>, 10>>,
     <<<<"2", "s", "a", "m", "u", "e", "l">>, 10>>,
     <<<<"2", "s", "m">>, 10>>,
     <<<<"2", " ", "s", "m">>, 10>>,
     <<<<"1", " ", "r", "e", "i", "s">>, 11>>,
     <<<<"1", "r", "e", "i", "s">>, 11>>,
     <<<<"1", "r", "s">>, 11>>,
     <<<<"1", " ", "r", "s">>, 11>>,
     <<<<"2", " ", "r", "e", "i", "s">>, 12>>,
     <<<<"2", "r", "e", "i", "s">>, 12>>,
     <<<<"2", "r", "s">>, 12>>,
     <<<<"2", " ", "r", "s">>, 12>>,
     <<<<"1", " ", "c", "r", "o", "n", "i", "c", "a", "s">>, 13>>,
     <<<<"1", "c", "r", "ô", "n", "i", "c", "a", "s">>, 13>>,
     <<<<"1", " ", "c", "r", "ô", "n", "i", "c", "a", "s">>, 13>>,
     <<<<"1", "c", "r">>, 13>>,
     <<<<"1", " ", "c", "r">>, 13>>,
     <<<<"2", " ", "c", "r", "o", "n", "i", "c", "a", "s">>, 14>>,
     <<<<"2", "c", "r", "ô", "n", "i", "c", "a", "s">>, 14>>,
     <<<<"2", " ", "c", "r", "ô", "n", "i", "c", "a", "s">>, 14>>,
     <<<<"2", "c", "r">>, 14>>,
     <<<<"2", " ", "c", "r">>, 14>>,
     <<<<"e", "s", "d", "r", "a", "s">>, 15>>,
     <<<<"e", "d">>, 15>>,
     <<<<"n", "e", "e", "m", "i", "a", "s">>, 16>>,
     <<<<"n", "e">>, 16>>,
     <<<<"e", "s", "t", "e", "r">>, 17>>,
     <<<<"e", "t">>, 17>>,
     <<<<"j", "o">>, 18>>,
     <<<<"j", "ó">>, 18>>,
     <<<<"s", "a", "l", "m", "o", "s">>, 19>>,
     <<<<"s", "l">>, 19>>,
     <<<<"p", "r", "o", "v", "e", "r", "b", "i", "o", "s">>, 20>>,
     <<<<"p", "r", "o", "v", "é", "r", "b", "i", "o", "s">>, 20>>,
     <<<<"p", "v">>, 20>>,
     <<<<"e", "c", "l", "e", "s", "i", "a", "s", "t", "e", "s">>, 21>>,
     <<<<"e", "c">>, 21>>,
     <<<<"c", "a", "n", "t", "a", "r", "e", "s">>, 22>>,
     <<<<"c", "a", "n", "t", "i", "c", "o", "s">>, 22>>,
     <<<<"c", "â", "n", "t", "i", "c", "o", "s">>, 22>>,
     <<<<"i", "s", "a", "i", "a", "s">>, 23>>,
     <<<<"i", "s", "a", "í", "a", "s">>, 23>>,
     <<<<"i", "s">>, 23>>,
     <<<<"j", "e", "r", "e", "m", "i", "a", "s">>, 24>>,
     <<<<"j", "r">>, 24>>,
     <<<<"l", "a", "m", "e", "n", "t", "a", "c", "o", "e", "s">>, 25>>,
     <<<<"l", "a", "m", "e", "n", "t", "a", "ç", "õ", "e", "s">>, 25>>,
     <<<<"l", "m">>, 25>>,
     <<<<"e", "z", "e", "q", "u", "i", "e", "l">>, 26>>,
     <<<<"e", "z">>, 26>>,
     <<<<"d", "a", "n", "i", "e", "l">>, 27>>,
     <<<<"d", "n">>, 27>>,
     <<<<"o", "s", "e", "i", "a", "s">>, 28>>,
     <<<<"o", "s", "é", "i", "a", "s">>, 28>>,
     <<<<"j", "o", "e", "l">>, 29>>,
     <<<<"a", "m", "o", "s">>, 30>>,
     <<<<"a", "m", "ó", "s">>, 30>>,
     <<<<"o", "b", "a", "d", "i", "a", "s">>, 31>>,
     <<<<"j", "o", "n", "a", "s">>, 32>>,
     <<<<"m", "i", "q", "u", "e", "i", "a", "s">>, 33>>,
     <<<<"n", "a", "u", "m">>, 34>>,
     <<<<"h", "a", "b", "a", "c", "u", "q", "u", "e">>, 35>>,
     <<<<"s", "o", "f", "o", "n", "i", "a", "s">>, 36>>,
     <<<<"a", "g", "e", "u">>, 37>>,
     <<<<"z", "a", "c", "a", "r", "i", "a", "s">>, 38>>,
     <<<<"m", "a", "l", "a", "q", "u", "i", "a", "s">>, 39>>,
     <<<<"m", "a", "t", "e", "u", "s">>, 40>>,
     <<<<"m", "t">>, 40>>,
     <<<<"m", "a", "r", "c", "o", "s">>, 41>>,
     <<<<"m", "c">>, 41>>,
     <<<<"l", "u", "c", "a", "s">>, 42>>,
     <<<<"l", "c">>, 42>>,
     <<<<"j", "o", "a", "o">>, 43>>,
     <<<<"j", "o", "ã", "o">>, 43>>,
     <<<<"j", "o">>, 43>>,
     <<<<"a", "t", "o", "s">>, 44>>,
     <<<<"a", "t">>, 44>>,
     <<<<"r", "o", "m", "a", "n", "o", "s">>, 45>>,
     <<<<"r", "m">>, 45>>,
     <<<<"1", " ", "c", "o", "r", "i", "n", "t", "i", "o", "s">>, 46>>,
     <<<<"1", "c", "o", "r", "i", "n", "t", "i", "o", "s">>, 46>>,
     <<<<"1", " ", "c", "o", "r", "í", "n", "t", "i", "o", "s">>, 46>>,
     <<<<"1", "c", "o", "r", "í", "n", "t", "i", "o", "s">>, 46>>,
     <<<<"1", "c", "o">>, 46>>,
     <<<<"1", " ", "c", "o">>, 46>>,
     <<<<"2", " ", "c", "o", "r", "i", "n", "t", "i", "o", "s">>, 47>>,
     <<<<"2", "c", "o", "r", "i", "n", "t", "i", "o", "s">>, 47>>,
     <<<<"2", " ", "c", "o", "r", "í", "n", "t", "i", "o", "s">>, 47>>,
     <<<<"2", "c", "o", "r", "í", "n", "t", "i", "o", "s">>, 47>>,
     <<<<"2", "c", "o">>, 47>>,
     <<<<"2", " ", "c", "o">>, 47>>,
     <<<<"g", "a", "l", "a", "t", "a", "s">>, 48>>,
     <<<<"g", "á", "l", "a", "t", "a", "s">>, 48>>,
     <<<<"g", "l">>, 48>>,
     <<<<"e", "f", "e", "s", "i", "o", "s">>, 49>>,
     <<<<"e", "f", "é", "s", "i", "o", "s">>, 49>>,
     <<<<"e", "f">>, 49>>,
     <<<<"f", "i", "l", "i", "p", "e", "n", "s", "e", "s">>, 50>>,
     <<<<"c", "o", "l", "o", "s", "s", "e", "n", "s", "e", "s">>, 51>>,
     <<<<"1", " ", "t", "e", "s", "s", "a", "l", "o", "n", "i", "c", "e", "n", "s", "e", "s">>, 52>>,
     <<<<"1", "t", "e", "s", "s", "a", "l", "o", "n", "i", "c", "e", "n", "s", "e", "s">>, 52>>,
     <<<<"2", " ", "t", "e", "s", "s", "a", "l", "o", "n", "i", "c", "e", "n", "s", "e", "s">>, 53>>,
     <<<<"2", "t", "e", "s", "s", "a", "l", "o", "n", "i", "c", "e", "n", "s", "e", "s">>, 53>>,
     <<<<"1", " ", "t", "i", "m", "o", "t", "e", "o">>, 54>>,
     <<<<"1", "t", "i", "m", "ó", "t", "e", "o">>, 54>>,
     <<<<"1", " ", "t", "i", "m", "ó", "t", "e", "o">>, 54>>,
     <<<<"2", " ", "t", "i", "m", "o", "t", "e", "o">>, 55>>,
     <<<<"2", "t", "i", "m", "ó", "t", "e", "o">>, 55>>,
     <<<<"2", " ", "t", "i", "m", "ó", "t", "e", "o">>, 55>>,
     <<<<"t", "i", "t", "o">>, 56>>,
     <<<<"f", "i", "l", "e", "m", "o", "m">>, 57>>,
     <<<<"f", "i", "l", "ê", "m", "o", "n">>, 57>>,
     <<<<"h", "e", "b", "r", "e", "u", "s">>, 58>>,
     <<<<"t", "i", "a", "g", "o">>, 59>>,
     <<<<"1", " ", "p", "e", "d", "r", "o">>, 60>>,
     <<<<"1", "p", "e", "d", "r", "o">>, 60>>,
     <<<<"2", " ", "p", "e", "d", "r", "o">>, 61>>,
     <<<<"2", "p", "e", "d", "r", "o">>, 61>>,
     <<<<"1", " ", "j", "o", "a", "o">>, 62>>,
     <<<<"1", "j", "o", "ã", "o">>, 62>>,
     <<<<"1", " ", "j", "o", "ã", "o">>, 62>>,
     <<<<"2", " ", "j", "o", "a", "o">>, 63>>,
     <<<<"2", "j", "o", "ã", "o">>, 63>>,
     <<<<"2", " ", "j", "o", "ã", "o">>, 63>>,
     <<<<"3", " ", "j", "o", "a", "o">>, 64>>,
     <<<<"3", "j", "o", "ã", "o">>, 64>>,
     <<<<"3", " ", "j", "o", "ã", "o">>, 64>>,
     <<<<"j", "u", "d", "a", "s">>, 65>>,
     <<<<"a", "p", "o", "c", "a", "l", "i", "p", "s", "e">>, 66>>
  >>

BookNumberFirstWritten(name) ==
  LET hits == {i \in DOMAIN BookMappingEntries : BookMappingEntries[i][1] = name}
  IN IF hits = {} THEN 0
     ELSE BookMappingEntries[CHOOSE i \in hits : \A j \in hits : i <= j][2]

\* a dict literal keeps the last value written for a key;
\* book_mapping.get(name); 0 stands for None
BookNumber(name) ==
  LET hits == {i \in DOMAIN BookMappingEntries : BookMappingEntries[i][1] = name}
  IN IF hits = {} THEN 0
     ELSE BookMappingEntries[CHOOSE i \in hits : \A j \in hits : i >= j][2]

\* "book_name in self.book_mapping"
InBookMapping(name) ==
  \E i \in DOMAIN BookMappingEntries : BookMappingEntries[i][1] = name

Digits == <<"0", "1", "2", "3", "4", "5", "6", "7", "8", "9">>

IsDigit(c) == \E i \in DOMAIN Digits : Digits[i] = c

DigitValue(c) == (CHOOSE i \in DOMAIN Digits : Digits[i] = c) - 1

AllDigits(s) == s # <<>> /\ \A i \in DOMAIN s : IsDigit(s[i])

AllSpaces(s) == s # <<>> /\ \A i \in DOMAIN s : IsSpace(s[i])

\* int() of a run of digits
RECURSIVE ToInt(_)
ToInt(s) ==
  IF s = <<>> THEN 0
  ELSE 10 * ToInt(SubSeq(s, 1, Len(s) - 1)) + DigitValue(s[Len(s)])

Punctuation == {",", ":", "."}

\* the ways the part after the book matches "\s+(\d+)[,:.](\d+)$" (grammar 1)
\* or "\s+(\d+)\s+(\d+)$" (grammar 2): <<chapter digits, verse digits>>
TailMatches(r, grammar) ==
  IF grammar = 1
  THEN {<<SubSeq(r, j + 1, k), SubSeq(r, k + 2, Len(r))>> :
          <<j, k>> \in {jk \in (1..Len(r)) \X (1..Len(r)) :
                          /\ jk[1] < jk[2] /\ jk[2] + 1 < Len(r)
                          /\ AllSpaces(SubSeq(r, 1, jk[1]))
                          /\ AllDigits(SubSeq(r, jk[1] + 1, jk[2]))
                          /\ r[jk[2] + 1] \in Punctuation
                          /\ AllDigits(SubSeq(r, jk[2] + 2, Len(r)))}}
  ELSE {<<SubSeq(r, t[1] + 1, t[2]), SubSeq(r, t[3] + 1, Len(r))>> :
          t \in {jkm \in (1..Len(r)) \X (1..Len(r)) \X (1..Len(r)) :
                   /\ jkm[1] < jkm[2] /\ jkm[2] < jkm[3] /\ jkm[3] < Len(r)
                   /\ AllSpaces(SubSeq(r, 1, jkm[1]))
                   /\ AllDigits(SubSeq(r, jkm[1] + 1, jkm[2]))
                   /\ AllSpaces(SubSeq(r, jkm[2] + 1, jkm[3]))
                   /\ AllDigits(SubSeq(r, jkm[3] + 1, Len(r)))}}

NoMatch == [ok |-> FALSE, book_name |-> <<>>, chapter |-> 0, verse |-> 0]

\* re.match(pattern, citation) with the lazy "^(.+?)": the shortest
\* non-empty prefix after which the rest matches
Match(c, grammar) ==
  LET cuts == {i \in 1..Len(c) :
                 TailMatches(SubSeq(c, i + 1, Len(c)), grammar) # {}}
  IN IF cuts = {} THEN NoMatch
     ELSE LET i == CHOOSE i \in cuts : \A j \in cuts : i <= j
              m == CHOOSE m \in TailMatches(SubSeq(c, i + 1, Len(c)), grammar) : TRUE
          IN [ok |-> TRUE, book_name |-> Strip(SubSeq(c, 1, i)),
              chapter |-> ToInt(m[1]), verse |-> ToInt(m[2])]

ParseCitationAnyBook(citation) ==
  LET c == Lower(Strip(citation))
  IN IF Match(c, 1).ok THEN Match(c, 1) ELSE Match(c, 2)

\* parse_citation: strip and lower, try the two patterns in order, and
\* accept the first match whose book is in the table
ParseCitation(citation) ==
  LET c == Lower(Strip(citation))
      m1 == Match(c, 1)
      m2 == Match(c, 2)
  IN IF m1.ok /\ InBookMapping(m1.book_name) THEN m1
     ELSE IF m2.ok /\ InBookMapping(m2.book_name) THEN m2
     ELSE NoMatch

IsBibleCitationOnce(text) ==
  ParseCitation(text).ok /\ \A q \in Tasks : task[q].kind # "is_citation"

\* is_bible_citation: "return self.parse_citation(text) is not None"
IsBibleCitation(text) == ParseCitation(text).ok

\* what the request to the verse API can end in: a 200 reply with a text,
\* or anything else (another status, no 'text', an exception)
VerseReplies ==
  {[found |-> TRUE, text |-> t] : t \in VerseTexts}
    \cup {[found |-> FALSE, text |-> <<>>]}

\* get_verse_by_citation and get_verse: the verse looked up under the book
\* number of the parsed name, or None
GetVerseByCitation(citation, reply) ==
  LET parsed == ParseCitation(citation)
      book_number == BookNumber(Lower(parsed.book_name))
  IN IF ~parsed.ok \/ book_number = 0 \/ ~reply.found THEN NoVerse
     ELSE [found |-> TRUE, text |-> reply.text, book_number |-> book_number,
           chapter |-> parsed.chapter, verse |-> parsed.verse]

\* a citation as a user may write it: the book, chapter 3 and verse 16 with
\* the given separator, in upper case or as given, with blanks around it
\* and a wider gap after the book or without
Spell(book, sep, upper, padded) ==
  LET gap == IF padded THEN <<" ", " ">> ELSE <<" ">>
      written == book \o gap \o <<"3", sep, "1", "6">>
      cased == IF upper THEN Upper(written) ELSE written
  IN IF padded THEN <<" ">> \o cased \o <<" ">> ELSE cased

Separators == Punctuation \cup {" "}

\* names written in several ways: aliases of Job and John, with and
\* without accent and ordinal, another book, and a name not in the table
BookSamples ==
  {<<"j", "o">>, <<"j", "ó">>, <<"j", "o", "a", "o">>, <<"j", "o", "ã", "o">>,
   <<"1", " ", "j", "o", "a", "o">>, <<"e", "d">>, <<"x">>}

\* chapters and verses as written: one to three digits, zero, a leading zero
NumberSpellings == {<<"0">>, <<"1">>, <<"0", "7">>, <<"4", "2">>, <<"1", "5", "0">>}

\* every key of the table in one spelling, the samples in every spelling,
\* and the two-letter names of Job and John with every chapter and verse
CitationInputs ==
  {Spell(BookMappingEntries[i][1], ",", FALSE, FALSE) :
     i \in DOMAIN BookMappingEntries}
    \cup {Spell(book, sep, upper, padded) :
            book \in BookSamples, sep \in Separators,
            upper \in BOOLEAN, padded \in BOOLEAN}
    \cup {<<"j", o, " ">> \o chapter \o <<sep>> \o verse :
            o \in {"o", "ó"}, chapter \in NumberSpellings,
            verse \in NumberSpellings, sep \in {",", ":"}}

\* strings that are not citations: empty, blank, parts of a citation
TextInputs ==
  {<<>>, <<" ">>, <<"3">>, <<"3", ",", "1", "6">>, <<"j", "o">>,
   <<"j", "o", " ", "3">>, <<"j", "o", " ", "3", ",">>, <<",">>,
   <<"j", "o", " ", "3", ",", "1", "6", ",">>, <<" ", "3", ",", "1", "6">>}
    \cup {Spell(book, sep, FALSE, FALSE) :
            book \in BookSamples, sep \in Separators}

\* the verse API answers the lookup with a verse
VerseFound == [found |-> TRUE, text |-> <<"v">>]

\* get_verse_by_citation on each input: whether a request is made, and the
\* verse with the book number, chapter and verse of the request
VerseLookups ==
  [citation \in CitationInputs |->
     [requested |-> ParseCitation(citation).ok,
      bible_verse |-> GetVerseByCitation(citation, VerseFound)]]

\* a direct call get_verse_by_citation(citation)
ParseCall(p) ==
  /\ task[p].pc = "idle"
  /\ \E citation \in CitationInputs :
       task' = [task EXCEPT ![p] =
                  [IdleTask EXCEPT !.kind = "parse", !.pc = "done",
                                   !.raw = citation,
                                   !.lookups = IF VerseLookups[citation].requested
                                               THEN 1 ELSE 0,
                                   !.bible_verse =
                                     VerseLookups[citation].bible_verse]]
  /\ UNCHANGED <<docs, nextId, emb>>

\* the value a call returned
Returned(value) ==
  [NoResp EXCEPT !.kind = IF value THEN "True" ELSE "False"]

\* a direct call is_bible_citation(text)
IsCitationCall(p) ==
  /\ task[p].pc = "idle"
  /\ \E text \in TextInputs :
       task' = [task EXCEPT ![p] =
                  [IdleTask EXCEPT !.kind = "is_citation", !.pc = "done",
                                   !.raw = text, !.citation_checks = 1,
                                   !.resp = Returned(IsBibleCitation(text))]]
  /\ UNCHANGED <<docs, nextId, emb>>

(***************************************************************************)
(* MongoDatabase.search_similar                                            *)
(***************************************************************************)
Min(a, b) == IF a < b THEN a ELSE b

Max(a, b) == IF a > b THEN a ELSE b

RECURSIVE Dot(_, _)
Dot(a, b) == IF a = <<>> THEN 0 ELSE a[1] * b[1] + Dot(Tail(a), Tail(b))

\* np.linalg.norm for the sums of squares of the vectors in use, each
\* computed once
Norms ==
  [n \in 1..(MaxDim * MaxComponent * MaxComponent) |->
     [bits \in {Float32Bits, Float64Bits} |-> FloatSqrt(n, bits)]]

\* np.linalg.norm of an array whose sum of squares is n > 0, in bits bits
Norm(n, bits) ==
  IF n \in DOMAIN Norms /\ bits \in DOMAIN Norms[n] THEN Norms[n][bits]
  ELSE FloatSqrt(n, bits)

\* 0.0 / 0.0 in numpy: nan, with a warning and no exception
NotANumber == [s |-> 0, m |-> <<1>>, e |-> 0]

CosineNoZeroGuard(vec1, bits1, vec2, bits2) ==
  IF Len(vec1) # Len(vec2) THEN ZeroScore
  ELSE IF Dot(vec1, vec1) = 0 \/ Dot(vec2, vec2) = 0 THEN NotANumber
  ELSE FloatDivInt(Dot(vec1, vec2),
                   FloatMul(Norm(Dot(vec1, vec1), bits1),
                            Norm(Dot(vec2, vec2), bits2)))

CosineUnnormalised(vec1, bits1, vec2, bits2) ==
  IF Len(vec1) # Len(vec2) THEN ZeroScore
  ELSE IF Dot(vec1, vec1) = 0 \/ Dot(vec2, vec2) = 0 THEN ZeroScore
  ELSE Float(Sign(Dot(vec1, vec2)), Big(Abs(Dot(vec1, vec2))), 0)

\* the body of _cosine_similarity and of cosine_similarity for arrays whose
\* norms are computed to bits1 and bits2 bits: np.dot raises on vectors of
\* different lengths and the except clause returns 0.0; 0.0 also when a
\* norm is 0
Cosine(vec1, bits1, vec2, bits2) ==
  IF Len(vec1) # Len(vec2) THEN ZeroScore
  ELSE IF Dot(vec1, vec1) = 0 \/ Dot(vec2, vec2) = 0 THEN ZeroScore
  ELSE FloatDivInt(Dot(vec1, vec2),
                   FloatMul(Norm(Dot(vec1, vec1), bits1),
                            Norm(Dot(vec2, vec2), bits2)))

\* the query vectors and stored vectors of the searches
SearchVectors == QueryVectors

\* the scores of those, each computed once
SearchScores ==
  [vec1 \in SearchVectors |->
     [vec2 \in SearchVectors |-> Cosine(vec1, Float32Bits, vec2, Float64Bits)]]

\* _cosine_similarity as search_similar calls it: vec1 is the float32 array
\* of the query, vec2 the float64 array made from the stored list
CosineSimilarity(vec1, vec2) ==
  IF vec1 \in SearchVectors /\ vec2 \in SearchVectors
  THEN SearchScores[vec1][vec2]
  ELSE Cosine(vec1, Float32Bits, vec2, Float64Bits)

\* x < y
ScoreLess(x, y) ==
  LET below(a, b) == a.e < b.e \/ (a.e = b.e /\ BigCmp(a.m, b.m) < 0)
  IN IF x.s # y.s THEN x.s < y.s
     ELSE IF x.s = 0 THEN FALSE
     ELSE IF x.s = 1 THEN below(x, y)
     ELSE below(y, x)

\* the documents matched by {"embedding": {"$exists": True, "$ne": None}}
Candidates == {id \in Ids : docs[id].has_embedding}

InsertionOrderAll(ids) == [n \in 1..(nextId - 1) |-> NewObjectId(n)]

\* the ids in the order of their creation
InsertionOrder(ids) ==
  SelectSeq([n \in 1..(nextId - 1) |-> NewObjectId(n)], LAMBDA id : id \in ids)

Reverse(seq) == [i \in DOMAIN seq |-> seq[Len(seq) + 1 - i]]

\* the orders in which the cursor of a find() without sort may hand over the
\* matched documents: the store promises none; the order of creation and its
\* reverse are tried
CursorOrders == {InsertionOrder(Candidates), Reverse(InsertionOrder(Candidates))}

InsertLast(sorted, x) == Append(sorted, x)

\* list.sort(key=similarity_score, reverse=True) is stable: x goes after
\* every element whose score is not smaller, i.e. before the first element
\* of a smaller score
InsertByScore(sorted, x) ==
  LET smaller == {i \in DOMAIN sorted :
                    ScoreLess(sorted[i].similarity_score, x.similarity_score)}
      at == IF smaller = {} THEN Len(sorted) + 1
            ELSE CHOOSE i \in smaller : \A j \in smaller : i <= j
  IN SubSeq(sorted, 1, at - 1) \o <<x>> \o SubSeq(sorted, at, Len(sorted))

\* results[1..Len(sorted)] being sorted already, the rest inserted one by one
RECURSIVE SortInto(_, _)
SortInto(results, sorted) ==
  IF Len(sorted) = Len(results) THEN sorted
  ELSE SortInto(results, InsertByScore(sorted, results[Len(sorted) + 1]))

SortByScore(results) == SortInto(results, <<>>)

ClampLimitBelowOnly(limit) == Max(MinLimit, limit)

\* "limit = max(1, min(limit, 100))"
ClampLimit(limit) == Max(MinLimit, Min(limit, MaxLimit))

\* the exceptions the driver raises from find() or from the cursor when the
\* store fails
StoreErrors == {"ServerSelectionTimeoutError", "OperationFailure"}

SearchSimilarRaisesGeneric(err) == "Exception"

\* "except Exception as e: logger.error(...); raise": the exception caught
\* is raised again as it is
SearchSimilarRaises(err) == err

\* search_similar, given the order in which the cursor yields the documents
SearchSimilar(query_embedding, limit, cursor) ==
  LET lim == ClampLimit(limit)
      results == [i \in DOMAIN cursor |->
                    [id |-> cursor[i],
                     similarity_score |->
                       CosineSimilarity(query_embedding, docs[cursor[i]].embedding)]]
      sorted == SortByScore(results)
  IN SubSeq(sorted, 1, Min(lim, Len(sorted)))

(***************************************************************************)
(* search_similar_texts                                                    *)
(***************************************************************************)
\* JSONResponse({"success": False, "error": ..., "query": query})
CitationNotFound(query) ==
  [status |-> 200, kind |-> "citation_not_found", ref |-> NoId,
   echo |-> query, search_text |-> <<>>, results |-> <<>>]

\* JSONResponse({"success": True, "query": ..., "search_text": ..., ...})
SearchResponse(query, search_text, results) ==
  [status |-> 200, kind |-> "success", ref |-> NoId, echo |-> query,
   search_text |-> search_text, results |-> results]

IsEmptyQueryNotStripped(query) == query = <<>>

\* "if not query.strip()"
IsEmptyQuery(query) == Strip(query) = <<>>

\* lines 172-185: the query arrives, must not be blank, is stripped and
\* tested for a citation
SearchValidate(p) ==
  /\ task[p].pc = "idle"
  /\ \E query \in QueryInputs :
       LET t == [IdleTask EXCEPT !.kind = "search", !.raw = query]
       IN task' = [task EXCEPT ![p] =
            IF IsEmptyQuery(query)
            THEN [t EXCEPT !.pc = "done",
                           !.resp = HTTPException(400, "empty query")]
            ELSE [t EXCEPT !.query = Strip(query),
                           !.search_text = Strip(query),
                           !.citation_checks = @ + 1,
                           !.pc = IF IsBibleCitation(Strip(query))
                                  THEN "lookup" ELSE "embed"]]
  /\ UNCHANGED <<docs, nextId, emb>>

LookedUpFallsBack(t, bible_verse) ==
  [t EXCEPT !.bible_verse = bible_verse, !.pc = "embed",
            !.search_text = IF bible_verse.found THEN bible_verse.text ELSE @]

LookedUpKeepsQuery(t, bible_verse) ==
  IF bible_verse.found
  THEN [t EXCEPT !.bible_verse = bible_verse, !.pc = "embed"]
  ELSE [t EXCEPT !.bible_verse = bible_verse, !.pc = "done",
                 !.resp = CitationNotFound(t.query)]

\* lines 190-204: with a verse its text becomes the search text, without
\* one the request ends with the not-found response
LookedUp(t, bible_verse) ==
  IF bible_verse.found
  THEN [t EXCEPT !.bible_verse = bible_verse, !.pc = "embed",
                 !.search_text = bible_verse.text]
  ELSE [t EXCEPT !.bible_verse = bible_verse, !.pc = "done",
                 !.resp = CitationNotFound(t.query)]

\* line 189: get_verse_by_citation, one request to the verse API
SearchLookup(p) ==
  /\ task[p].kind = "search"
  /\ task[p].pc = "lookup"
  /\ \E reply \in VerseReplies :
       task' = [task EXCEPT ![p] =
                  LookedUp([task[p] EXCEPT !.lookups = @ + 1],
                           GetVerseByCitation(task[p].query, reply))]
  /\ UNCHANGED <<docs, nextId, emb>>

EmbedFailedNever(ret) == FALSE

\* "if query_embedding is None"
EmbedFailed(ret) == ~ret.ok

\* lines 206-209: generate_embedding(search_text)
SearchEmbed(p) ==
  /\ task[p].kind = "search"
  /\ task[p].pc = "embed"
  /\ \E e \in CallOutcomes[task[p].search_text] :
       LET t == [task[p] EXCEPT !.embedded = task[p].search_text,
                                !.calls = @ + 1, !.posts = @ + e.posts,
                                !.embedding = e.ret]
       IN task' = [task EXCEPT ![p] =
            IF EmbedFailed(e.ret)
            THEN [t EXCEPT !.pc = "done",
                           !.resp = HTTPException(500, "embedding failed")]
            ELSE [t EXCEPT !.pc = "rank"]]
  /\ UNCHANGED <<docs, nextId, emb>>

\* lines 211-239: search_similar with limit 10, and the response; when the
\* store fails, search_similar raises and "except Exception" answers 500
SearchRank(p) ==
  /\ task[p].kind = "search"
  /\ task[p].pc = "rank"
  /\ \/ \E cursor \in CursorOrders :
          task' = [task EXCEPT ![p].pc = "done", ![p].reads = @ + 1,
                               ![p].limit = SearchLimit, ![p].cursor = cursor,
                               ![p].resp = SearchResponse(task[p].query,
                                             task[p].search_text,
                                             SearchSimilar(task[p].embedding.vec,
                                                           SearchLimit, cursor))]
     \/ \E err \in StoreErrors :
          task' = [task EXCEPT ![p].pc = "done", ![p].reads = @ + 1,
                               ![p].limit = SearchLimit,
                               ![p].store_error = err,
                               ![p].caught = SearchSimilarRaises(err),
                               ![p].resp = HTTPException(500, "Busca falhou")]
  /\ UNCHANGED <<docs, nextId, emb>>

\* the precision in which numpy computes the norm of an array
NormBits(dtype) == IF dtype = "float32" THEN Float32Bits ELSE Float64Bits

\* a call of _cosine_similarity: vec2 is an array made from a list or from
\* integers (float64), vec1 such an array or the float32 array of a query;
\* every path of the function returns a float
CosineCall(p) ==
  /\ task[p].pc = "idle"
  /\ \E vec1 \in CosineVectors, vec2 \in CosineVectors,
        dtype1 \in {"float32", "float64"} :
       task' = [task EXCEPT ![p] =
                  [IdleTask EXCEPT !.kind = "cosine", !.pc = "done",
                                   !.vec1 = vec1, !.dtype1 = dtype1,
                                   !.vec2 = vec2,
                                   !.resp = [NoResp EXCEPT !.kind = "float"],
                                   !.similarity =
                                     Cosine(vec1, NormBits(dtype1),
                                            vec2, NormBits("float64"))]]
  /\ UNCHANGED <<docs, nextId, emb>>

\* a direct call search_similar(query_embedding, limit): it returns the
\* list, or raises what the store raised
RankCall(p) ==
  /\ task[p].pc = "idle"
  /\ \E query_embedding \in QueryVectors, limit \in LimitInputs :
       \/ \E cursor \in CursorOrders :
            task' = [task EXCEPT ![p] =
                       [IdleTask EXCEPT !.kind = "rank", !.pc = "done",
                                        !.embedding = Some(query_embedding),
                                        !.limit = limit, !.cursor = cursor,
                                        !.reads = 1,
                                        !.resp = SearchResponse(<<>>, <<>>,
                                                   SearchSimilar(query_embedding,
                                                                 limit, cursor))]]
       \/ \E err \in StoreErrors :
            task' = [task EXCEPT ![p] =
                       [IdleTask EXCEPT !.kind = "rank", !.pc = "done",
                                        !.embedding = Some(query_embedding),
                                        !.limit = limit,
                                        !.reads = 1,
                                        !.store_error = err,
                                        !.resp = [NoResp EXCEPT
                                                    !.kind = SearchSimilarRaises(err)]]]
  /\ UNCHANGED <<docs, nextId, emb>>

(***************************************************************************)
(* Specifications.                                                         *)
(***************************************************************************)
Init ==
  /\ docs = <<>>
  /\ nextId = 1
  /\ task = [p \in Tasks |-> IdleTask]
  /\ emb = [p \in Tasks |-> IdleEmb]

\* one direct call of generate_embedding at a time, step by step
EmbedNext ==
  \E p \in {1} :
    \/ EmbedRequest(p)
    \/ EmbedEntry(p)
    \/ EmbedPost(p)
    \/ EmbedReply(p)
    \/ EmbedReturn(p)
    \/ Reset(p)

SpecEmbed == Init /\ [][EmbedNext]_vars

\* concurrent add, update and delete requests
WriteNext ==
  \E p \in Tasks :
    \/ AddValidate(p)
    \/ AddCheck(p)
    \/ AddInsert(p)
    \/ UpdValidate(p)
    \/ UpdExists(p)
    \/ UpdCheck(p)
    \/ UpdWrite(p)
    \/ DeleteRecord(p)
    \/ Reset(p)

SpecWrite == Init /\ [][WriteNext]_vars

\* a collection the write path can have built: distinct normalized titles,
\* embeddings as the provider returned them
StoredDocs ==
  {Document(t, <<"x">>, Some(v)) : t \in {<<"s">>, <<"T">>}, v \in Vectors \cup {<<>>}}

Corpora ==
  UNION {{c \in [{NewObjectId(n) : n \in 1..k} -> StoredDocs] :
            \A a \in DOMAIN c : \A b \in DOMAIN c \ {a} :
              c[a].title_lower # c[b].title_lower} : k \in 0..MaxDocs}

InitSearch ==
  /\ docs \in Corpora
  /\ nextId = Cardinality(DOMAIN docs) + 1
  /\ task = [p \in Tasks |-> IdleTask]
  /\ emb = [p \in Tasks |-> IdleEmb]

\* one search request at a time over a stored collection
SearchNext ==
  \E p \in {1} :
    \/ SearchValidate(p)
    \/ SearchLookup(p)
    \/ SearchEmbed(p)
    \/ SearchRank(p)
    \/ Reset(p)

SpecSearch == InitSearch /\ [][SearchNext]_vars

\* what a stored document holds in its embedding field: one of these
\* vectors, or nothing (a document written without an embedding)
StoredEmbeddings ==
  {[has |-> TRUE, vec |-> v] : v \in Vectors \cup {<<1, 1>>, <<>>}}
    \cup {[has |-> FALSE, vec |-> <<>>]}

\* the n-th document of a collection, titled by its number
RankDoc(n, e) ==
  [Document(NewObjectId(n), <<"x">>, Some(e.vec)) EXCEPT !.has_embedding = e.has]

\* the collection of k documents whose n-th embedding is f[n]
Collection(k, f) ==
  [id \in {NewObjectId(n) : n \in 1..k} |-> RankDoc(IdRank(id), f[IdRank(id)])]

\* every collection of up to MaxRankDocs documents
SmallCorpora ==
  UNION {{Collection(k, f) : f \in [1..k -> StoredEmbeddings]} :
           k \in 0..MaxRankDocs}

\* two collections with more documents than the largest limit: every
\* document with a vector, and every tenth without one
LargeCorpora ==
  {Collection(MaxLimit + 1,
     [n \in 1..(MaxLimit + 1) |->
        [has |-> TRUE, vec |-> IF n % 2 = 0 THEN <<1, 0>> ELSE <<0, 1>>]]),
   Collection(MaxLimit + 1,
     [n \in 1..(MaxLimit + 1) |->
        IF n % 10 = 0 THEN [has |-> FALSE, vec |-> <<>>]
        ELSE [has |-> TRUE, vec |-> IF n % 3 = 0 THEN <<1, 1>> ELSE <<1, 0>>]])}

InitRank ==
  /\ docs \in SmallCorpora \cup LargeCorpora
  /\ nextId = Cardinality(DOMAIN docs) + 1
  /\ task = [p \in Tasks |-> IdleTask]
  /\ emb = [p \in Tasks |-> IdleEmb]

\* one caller of search_similar at a time
RankNext ==
  \E p \in {1} :
    \/ RankCall(p)
    \/ Reset(p)

SpecRank == InitRank /\ [][RankNext]_vars

\* two callers of search_similar over the same collection
RankTwiceNext ==
  \E p \in Tasks :
    \/ RankCall(p)
    \/ Reset(p)

SpecRankTwice == InitSearch /\ [][RankTwiceNext]_vars

\* callers of the citation parser
CitationNext ==
  \E p \in Tasks :
    \/ ParseCall(p)
    \/ IsCitationCall(p)
    \/ Reset(p)

SpecCitation == Init /\ [][CitationNext]_vars

\* one caller of _cosine_similarity at a time
CosineNext ==
  \E p \in {1} :
    \/ CosineCall(p)
    \/ Reset(p)

SpecCosine == Init /\ [][CosineNext]_vars

(***************************************************************************)
(* Properties of the write path, checked under SpecWrite.                  *)
(***************************************************************************)
\* the normalized title of the data model: lower-cased and trimmed
NormalizedTitle(title) == Strip(Lower(title))

SameTitle(id, title) == NormalizedTitle(docs[id].title) = NormalizedTitle(title)

\* C1: no two stored documents have the same normalized title, whatever the
\* interleaving of add and update requests: of two writers that both passed
\* check_title_exists the unique index lets one commit
C1_UniqueNormalizedTitle ==
  \A a \in Ids : \A b \in Ids \ {a} : ~SameTitle(a, docs[b].title)

\* the race happened: an add passed the check and was then refused by the
\* index, because another writer committed the same normalized title
C1_Witness ==
  \E p \in Tasks : \E q \in Tasks \ {p} :
    /\ task[p].kind = "add"
    /\ task[p].pc = "done"
    /\ task[p].resp = HTTPException(500, "write failed")
    /\ task[q].pc = "done"
    /\ task[q].resp.kind = "success"
    /\ task[q].kind \in {"add", "update"}
    /\ task[q].resp.ref \in Ids
    /\ SameTitle(task[q].resp.ref, task[p].title)

\* C2: when add_record makes its title check and the collection holds a
\* document with the same normalized title, the request ends there: nothing
\* is written and the response is the duplicate response with the id of
\* that document
C2_DuplicateAddRefused ==
  [][\A p \in Tasks :
       (task[p].kind = "add" /\ task[p].pc = "check" /\ task'[p] # task[p]) =>
         LET dups == {id \in Ids : SameTitle(id, task[p].title)}
         IN dups # {} =>
              /\ docs' = docs
              /\ task'[p].pc = "done"
              /\ task'[p].resp.status = 200
              /\ task'[p].resp.kind = "duplicate_detected"
              /\ task'[p].resp.ref \in dups]_vars

\* an add was answered as a duplicate of a stored title spelled differently
C2_Witness ==
  \E p \in Tasks :
    /\ task[p].kind = "add"
    /\ task[p].pc = "done"
    /\ task[p].resp.kind = "duplicate_detected"
    /\ task[p].resp.ref \in Ids
    /\ docs[task[p].resp.ref].title # task[p].title
    /\ SameTitle(task[p].resp.ref, task[p].title)

\* C3: when update_record on document d makes its title check, it ends with
\* the duplicate response naming d' and no write if another document d' has
\* the new normalized title, and it does not answer "duplicate" if no
\* document other than d has it
C3_UpdateDuplicateCheck ==
  [][\A p \in Tasks :
       (task[p].kind = "update" /\ task[p].pc = "check" /\ task'[p] # task[p]) =>
         LET d == ObjectIdOf(task[p].record_id)
             others == {id \in Ids \ {d} : SameTitle(id, task[p].title)}
         IN /\ others # {} =>
                 /\ docs' = docs
                 /\ task'[p].pc = "done"
                 /\ task'[p].resp.kind = "duplicate_detected"
                 /\ task'[p].resp.ref \in others
            /\ others = {} => task'[p].resp.kind # "duplicate_detected"]_vars

(***************************************************************************)
(* Properties of generate_embedding, checked under SpecEmbed.              *)
(***************************************************************************)
TransportFailure(l) == l.kind \in {"Timeout", "RequestException", "status"}

\* a 200 reply whose body has no 'embedding' entry
NoVectorField(l) == l.kind = "200" /\ ~l.has

\* a 200 reply whose 'embedding' entry is the empty list
EmptyVector(l) == l.kind = "200" /\ l.has /\ l.vec = <<>>

FailedAttempt(l) == TransportFailure(l) \/ NoVectorField(l)

Started(e) == e.pc \notin {"idle", "entry"}

C5_SuccessAfterFailures ==
  \A p \in Tasks :
    LET e == emb[p]
        n == Len(e.log)
    IN (e.pc = "returned" /\ n > 0) =>
         /\ ( /\ \A i \in 1..(n - 1) : TransportFailure(e.log[i])
              /\ e.log[n].kind = "200" /\ e.log[n].has )
            => (e.ret.ok /\ e.ret = Some(e.log[n].vec))
         /\ n <= e.retries => (e.log[n].kind = "200" /\ e.log[n].has)

C5_Witness ==
  \E p \in Tasks :
    /\ emb[p].pc = "returned"
    /\ Len(emb[p].log) = 2
    /\ emb[p].log[1].kind = "Timeout"
    /\ emb[p].ret = Some(<<1, 0>>)

Exhausted(e) ==
  /\ Started(e)
  /\ Len(e.log) = e.retries + 1
  /\ \A i \in DOMAIN e.log : FailedAttempt(e.log[i])

\* C6 as stated: after retries + 1 failed attempts the call has ended with
\* a failure outcome that carries the cause of the last failed attempt
C6_FailureCarriesCause ==
  \A p \in Tasks :
    Exhausted(emb[p]) =>
      /\ emb[p].pc = "returned"
      /\ ~emb[p].ret.ok
      /\ emb[p].ret.cause = emb[p].log[Len(emb[p].log)].branch

\* C6 amended: after retries + 1 failed attempts the call has ended, having
\* sent exactly retries + 1 requests, and returns None; the cause of the
\* last failure is logged, the returned None does not carry it
C6_ExhaustionReturnsNone ==
  \A p \in Tasks :
    Exhausted(emb[p]) =>
      /\ emb[p].pc = "returned"
      /\ emb[p].ret = None
      /\ Len(emb[p].sent) = emb[p].retries + 1

C6_Witness ==
  \E p \in Tasks :
    /\ Exhausted(emb[p])
    /\ emb[p].retries = DefaultRetries
    /\ emb[p].log[3].kind = "RequestException"

C8_BlankRejected ==
  \A p \in Tasks :
    LET e == emb[p]
    IN (Started(e) /\ Strip(e.arg) = <<>>) =>
         (e.pc = "returned" /\ e.ret = None /\ e.sent = <<>> /\ e.log = <<>>)

C8_Witness ==
  \E p \in Tasks :
    /\ emb[p].pc = "returned"
    /\ emb[p].arg = <<" ">>
    /\ emb[p].retries = DefaultRetries
    /\ emb[p].sent = <<>>

(***************************************************************************)
(* Properties of the search path (SpecSearch)                              *)
(***************************************************************************)
\* the request has gone through the lookup of its citation
LookedUpTask(t) == t.kind = "search" /\ t.lookups > 0 /\ t.pc # "lookup"

\* scores never increase along the results
IsRanked(results) ==
  \A i \in DOMAIN results : \A j \in DOMAIN results :
    i < j => ~ScoreLess(results[i].similarity_score, results[j].similarity_score)

\* C9: a query recognized as a citation whose lookup finds no verse ends
\* with the citation-not-found response, which echoes the query as the
\* handler holds it (trimmed); no embedding is requested and the
\* collection is not read
C9_CitationNotFound ==
  \A p \in Tasks :
    (LookedUpTask(task[p]) /\ ~task[p].bible_verse.found) =>
      /\ IsBibleCitation(task[p].raw)
      /\ task[p].pc = "done"
      /\ task[p].resp = CitationNotFound(Strip(task[p].raw))
      /\ task[p].calls = 0
      /\ task[p].posts = 0
      /\ task[p].reads = 0

\* a citation written with capitals and blanks around it was not found
C9_Witness ==
  \E p \in Tasks :
    /\ LookedUpTask(task[p])
    /\ ~task[p].bible_verse.found
    /\ task[p].resp.kind = "citation_not_found"
    /\ task[p].raw # Strip(task[p].raw)
    /\ docs # <<>>

\* C10: the text handed to generate_embedding is the text of the resolved
\* verse when the query is a citation and the trimmed query otherwise; when
\* the call returns a vector and the store answers the read, the request
\* ends with the ranked results
C10_SearchText ==
  \A p \in Tasks :
    (task[p].kind = "search" /\ task[p].calls > 0) =>
      /\ task[p].calls = 1
      /\ IF IsBibleCitation(task[p].raw)
         THEN /\ task[p].bible_verse.found
              /\ task[p].embedded = task[p].bible_verse.text
         ELSE /\ task[p].lookups = 0
              /\ task[p].embedded = Strip(task[p].raw)
      /\ (task[p].pc = "done" /\ task[p].embedding.ok
            /\ task[p].store_error = "none") =>
           /\ task[p].resp.kind = "success"
           /\ task[p].cursor \in CursorOrders
           /\ task[p].resp.results =
                SearchSimilar(task[p].embedding.vec, SearchLimit, task[p].cursor)
           /\ IsRanked(task[p].resp.results)
           /\ task[p].reads = 1

\* a resolved citation was answered with two results of different scores
C10_Witness ==
  \E p \in Tasks :
    /\ task[p].kind = "search"
    /\ task[p].pc = "done"
    /\ task[p].bible_verse.found
    /\ task[p].embedded = task[p].bible_verse.text
    /\ task[p].embedded # task[p].query
    /\ task[p].resp.kind = "success"
    /\ Len(task[p].resp.results) = 2
    /\ ScoreLess(task[p].resp.results[2].similarity_score,
                 task[p].resp.results[1].similarity_score)

\* C11: when generate_embedding returns None for the search text, the
\* request ends with the 500 of the embedding failure; the collection is
\* not read and the response carries no results
C11_EmbedFailureEndsSearch ==
  \A p \in Tasks :
    (task[p].kind = "search" /\ task[p].calls > 0 /\ ~task[p].embedding.ok) =>
      /\ task[p].pc = "done"
      /\ task[p].resp = HTTPException(500, "embedding failed")
      /\ task[p].resp.status = 500
      /\ task[p].resp.results = <<>>
      /\ task[p].reads = 0

\* the provider failed on every attempt of a search over a non-empty
\* collection
C11_Witness ==
  \E p \in Tasks :
    /\ task[p].kind = "search"
    /\ task[p].calls = 1
    /\ ~task[p].embedding.ok
    /\ task[p].posts = DefaultRetries + 1
    /\ task[p].resp.status = 500
    /\ Candidates # {}

\* C12: a query that is empty after strip is rejected with the 400 of the
\* empty query before any citation check, verse lookup, embedding call or
\* read of the collection
C12_EmptyQueryRejected ==
  \A p \in Tasks :
    (task[p].kind = "search" /\ Strip(task[p].raw) = <<>>) =>
      /\ task[p].pc = "done"
      /\ task[p].resp = HTTPException(400, "empty query")
      /\ task[p].citation_checks = 0
      /\ task[p].lookups = 0
      /\ task[p].calls = 0
      /\ task[p].posts = 0
      /\ task[p].reads = 0

\* a query of blanks only was rejected
C12_Witness ==
  \E p \in Tasks :
    /\ task[p].kind = "search"
    /\ task[p].raw # <<>>
    /\ Strip(task[p].raw) = <<>>
    /\ task[p].resp.status = 400

(***************************************************************************)
(* Properties of search_similar (SpecRank, SpecRankTwice)                  *)
(***************************************************************************)
\* a call of search_similar has returned to task p
Ranked(p) ==
  task[p].kind = "rank" /\ task[p].pc = "done" /\ task[p].store_error = "none"

\* the limit brought into the range MinLimit..MaxLimit
Clamped(limit) ==
  IF limit < MinLimit THEN MinLimit
  ELSE IF limit > MaxLimit THEN MaxLimit
  ELSE limit

\* the score of a stored document against the query of task p
ScoreOf(p, id) == CosineSimilarity(task[p].embedding.vec, docs[id].embedding)

\* the ids in a result list
Listed(results) == {results[i].id : i \in DOMAIN results}

\* C13: for every limit and every collection, search_similar returns exactly
\* min(clamp(limit, 1, 100), number of documents with an embedding) results
C13_ResultCount ==
  \A p \in Tasks :
    Ranked(p) =>
      /\ Len(task[p].resp.results)
           = Min(Clamped(task[p].limit), Cardinality(Candidates))
      /\ Len(task[p].resp.results) <= Clamped(task[p].limit)
      /\ Len(task[p].resp.results) <= Cardinality(Candidates)

\* a limit above 100 against more than 100 candidates returned 100 results,
\* in a collection that also holds documents without an embedding
C13_Witness ==
  \E p \in Tasks :
    /\ Ranked(p)
    /\ task[p].limit > MaxLimit
    /\ Cardinality(Candidates) > MaxLimit
    /\ Len(task[p].resp.results) = MaxLimit

\* C14: the list returned by search_similar holds candidates with their
\* scores, ordered by score non-increasing, and every candidate left out
\* scores no more than the last one listed
C14_TopK ==
  \A p \in Tasks :
    Ranked(p) =>
      LET results == task[p].resp.results
      IN /\ Listed(results) \subseteq Candidates
         /\ Cardinality(Listed(results)) = Len(results)
         /\ \A i \in DOMAIN results :
              results[i].similarity_score = ScoreOf(p, results[i].id)
         /\ IsRanked(results)
         /\ \A id \in Candidates \ Listed(results) :
              /\ results # <<>>
              /\ ~ScoreLess(results[Len(results)].similarity_score,
                            ScoreOf(p, id))

\* two results of different scores were returned and a third candidate of
\* a still lower score was left out
C14_Witness ==
  \E p \in Tasks :
    /\ Ranked(p)
    /\ Len(task[p].resp.results) = 2
    /\ ScoreLess(task[p].resp.results[2].similarity_score,
                 task[p].resp.results[1].similarity_score)
    /\ \E id \in Candidates \ Listed(task[p].resp.results) :
         ScoreLess(ScoreOf(p, id), task[p].resp.results[2].similarity_score)
    /\ task[p].cursor # InsertionOrder(Candidates)

\* C15: two calls of search_similar with the same query vector and limit
\* over an unchanged collection return the same ordered list, the order of
\* equal scores included
C15_SameOrderTwice ==
  \A p \in Tasks : \A q \in Tasks :
    (/\ Ranked(p) /\ Ranked(q)
     /\ task[p].embedding = task[q].embedding
     /\ task[p].limit = task[q].limit) =>
      task[p].resp.results = task[q].resp.results

(***************************************************************************)
(* Properties of the citation parser (SpecSearch, SpecCitation)            *)
(***************************************************************************)
\* the matches of the two patterns on a text
GrammarMatches(text) ==
  {m \in {Match(Lower(Strip(text)), g) : g \in {1, 2}} : m.ok}

\* the text has the form of a citation and its book is not a key of the table
UnknownBook(text) ==
  /\ GrammarMatches(text) # {}
  /\ \A m \in GrammarMatches(text) : ~InBookMapping(m.book_name)

\* C16: a query of the form of a citation whose book is not a key of the
\* table is not a citation: parse_citation returns None, is_bible_citation
\* False, no verse is looked up and the trimmed query itself is embedded
C16_UnknownBookIsFreeText ==
  \A p \in Tasks :
    (task[p].kind = "search" /\ UnknownBook(task[p].raw)) =>
      /\ ~ParseCitation(task[p].raw).ok
      /\ ~IsBibleCitation(task[p].raw)
      /\ task[p].pc # "lookup"
      /\ task[p].lookups = 0
      /\ task[p].bible_verse = NoVerse
      /\ task[p].resp.kind # "citation_not_found"
      /\ task[p].calls > 0 => task[p].embedded = Strip(task[p].raw)
      /\ task[p].pc = "done" => task[p].calls = 1

\* a well-formed citation of an unknown book, in the grammar without
\* punctuation, was answered with results of the plain-text search
C16_Witness ==
  \E p \in Tasks :
    /\ task[p].kind = "search"
    /\ UnknownBook(task[p].raw)
    /\ Match(Lower(Strip(task[p].raw)), 2).ok
    /\ task[p].embedded = Strip(task[p].raw)
    /\ task[p].resp.kind = "success"
    /\ task[p].resp.results # <<>>

\* the entries of the table, each alias with the book number written next
\* to it, in the spellings of the inputs
SpelledEntries ==
  {[raw |-> Spell(BookMappingEntries[i][1], ",", FALSE, FALSE),
    book |-> BookMappingEntries[i][2]] : i \in DOMAIN BookMappingEntries}
    \cup {[raw |-> Spell(BookMappingEntries[i][1], sep, upper, padded),
           book |-> BookMappingEntries[i][2]] :
            i \in {j \in DOMAIN BookMappingEntries :
                     BookMappingEntries[j][1] \in BookSamples},
            sep \in Separators, upper \in BOOLEAN, padded \in BOOLEAN}

\* C17: a citation written with an alias of the table is looked up under the
\* book number the table writes for that alias, with the chapter and verse
\* written, whatever the alias, letter case, blanks and separator
C17_AliasIndependence ==
  \A p \in Tasks :
    (task[p].kind = "parse" /\ task[p].pc = "done") =>
      \A e \in SpelledEntries :
        task[p].raw = e.raw =>
          /\ task[p].bible_verse.found
          /\ task[p].bible_verse.book_number = e.book
          /\ task[p].bible_verse.chapter = 3
          /\ task[p].bible_verse.verse = 16

\* task p takes the step in which is_bible_citation returns
IsCitationReturns(p) ==
  task[p].kind # "is_citation" /\ task'[p].kind = "is_citation"

Cosined(p) == task[p].kind = "cosine" /\ task[p].pc = "done"

ZeroNorm(v) == \A i \in DOMAIN v : v[i] = 0

\* C19: for two vectors of the same length of which one has zero norm (all
\* components zero), the cosine returns, and returns exactly 0.0
C19_ZeroNormGivesZero ==
  \A p \in Tasks :
    (/\ Cosined(p)
     /\ Len(task[p].vec1) = Len(task[p].vec2)
     /\ (ZeroNorm(task[p].vec1) \/ ZeroNorm(task[p].vec2)))
      => /\ task[p].resp.kind = "float"
         /\ task[p].similarity = ZeroScore

\* the cosine of a zero vector and a non-zero vector of its length returned
\* 0.0
C19_Witness ==
  \E p \in Tasks :
    /\ Cosined(p)
    /\ Len(task[p].vec1) = MaxDim /\ Len(task[p].vec2) = MaxDim
    /\ ZeroNorm(task[p].vec1) /\ ~ZeroNorm(task[p].vec2)
    /\ task[p].resp.kind = "float"
    /\ task[p].similarity = ZeroScore

\* 1.0
FloatOne == Float(1, Big(1), 0)

\* the tests accept a similarity within 1e-6 of the expected value
ToleranceInverse == 1000000

\* abs(x - 1.0) < 1e-6
NearOne(x) ==
  /\ x.s = 1
  /\ x.e < 0
  /\ LET scaled == BigMul(x.m, Big(ToleranceInverse))
         one == BigShl(Big(ToleranceInverse), 0 - x.e)
         diff == IF BigCmp(scaled, one) >= 0 THEN BigSub(scaled, one)
                 ELSE BigSub(one, scaled)
     IN BigCmp(diff, BigShl(Big(1), 0 - x.e)) < 0

NonNegative(v) == \A i \in DOMAIN v : v[i] >= 0

\* C20 as stated: for arrays of integers, the cosine of a non-zero vector
\* with itself is 1, the cosine of two orthogonal vectors is 0, and the
\* cosine of two vectors with non-negative components lies in [0, 1]
C20_ExactCosine ==
  \A p \in Tasks :
    (Cosined(p) /\ task[p].dtype1 = "float64"
       /\ Len(task[p].vec1) = Len(task[p].vec2))
      => /\ (task[p].vec1 = task[p].vec2 /\ ~ZeroNorm(task[p].vec1))
              => task[p].similarity = FloatOne
         /\ Dot(task[p].vec1, task[p].vec2) = 0
              => task[p].similarity = ZeroScore
         /\ (NonNegative(task[p].vec1) /\ NonNegative(task[p].vec2))
              => /\ ~ScoreLess(task[p].similarity, ZeroScore)
                 /\ ~ScoreLess(FloatOne, task[p].similarity)

\* C20: for vectors with integer components, the cosine of a non-zero
\* vector with itself is within 1e-6 of 1 (and may lie on either side of
\* it), the cosine of two orthogonal vectors is exactly 0, and the cosine of
\* two vectors with non-negative components is not below 0 and is at most 1
\* or within 1e-6 of it
C20_CosineWithinTolerance ==
  \A p \in Tasks :
    (Cosined(p) /\ Len(task[p].vec1) = Len(task[p].vec2))
      => /\ (task[p].vec1 = task[p].vec2 /\ ~ZeroNorm(task[p].vec1))
              => NearOne(task[p].similarity)
         /\ Dot(task[p].vec1, task[p].vec2) = 0
              => task[p].similarity = ZeroScore
         /\ (NonNegative(task[p].vec1) /\ NonNegative(task[p].vec2))
              => /\ ~ScoreLess(task[p].similarity, ZeroScore)
                 /\ \/ ~ScoreLess(FloatOne, task[p].similarity)
                    \/ NearOne(task[p].similarity)

\* the cosine of a non-zero vector of integers with itself came out above 1
C20_Witness ==
  \E p \in Tasks :
    /\ Cosined(p) /\ task[p].dtype1 = "float64"
    /\ task[p].vec1 = task[p].vec2 /\ ~ZeroNorm(task[p].vec1)
    /\ NonNegative(task[p].vec1)
    /\ ScoreLess(FloatOne, task[p].similarity)
    /\ NearOne(task[p].similarity)

\* the document an update is aimed at; an add is aimed at none
OwnId(p) ==
  IF task[p].kind = "update" THEN ObjectIdOf(task[p].record_id) ELSE NoId

\* the stored documents, other than its own, that carry the normalized title
\* request p wants to write
Conflicting(p) ==
  {o \in Ids \ {OwnId(p)} : docs[o].title_lower = TitleLower(task[p].title)}

\* request p ends in this step, at its title check or at its write, with
\* its title taken by another document and nothing written
RefusedAsDuplicate(p) ==
  /\ task[p].kind \in {"add", "update"}
  /\ task[p].pc \in {"check", "insert", "write"}
  /\ task'[p].pc = "done"
  /\ Conflicting(p) # {}
  /\ task[p].pc = "write" => OwnId(p) \in Ids
  /\ docs' = docs

\* C21: an add or update that is refused because another document has its
\* normalized title ends with the duplicate response naming that document,
\* also when the refusal comes from the unique index after a lost race
C21_DuplicateIsStructured ==
  [][\A p \in Tasks :
       RefusedAsDuplicate(p) =>
         /\ task'[p].resp.kind = "duplicate_detected"
         /\ task'[p].resp.ref \in Conflicting(p)]_vars

\* in this step a store operation of request p runs on its id: find_one or
\* update_one of an update, delete_one of a delete
StoreOpRuns(p) ==
  \/ /\ task[p].kind = "update"
     /\ task[p].pc \in {"exists", "write"}
     /\ task'[p] # task[p]
     /\ ObjectIdValid(task[p].record_id)
  \/ /\ task[p].pc = "idle"
     /\ task'[p].kind = "delete"
     /\ ObjectIdValid(task'[p].record_id)

\* C22: an update or delete whose id names no stored document when its
\* store operation runs ends with 404 and changes nothing, also when the
\* document went away between the update's existence check and its write;
\* and an update answers success only when update_one has rewritten the
\* document of that id
C22_MissingIdIsNotFound ==
  [][\A p \in Tasks :
       /\ (StoreOpRuns(p) /\ ObjectIdOf(task'[p].record_id) \notin Ids)
            => /\ task'[p].pc = "done"
               /\ task'[p].resp.status = 404
               /\ docs' = docs
       /\ (/\ task[p].kind = "update" /\ task[p].pc # "done"
           /\ task'[p].pc = "done" /\ task'[p].resp.kind = "success")
            => /\ task[p].pc = "write"
               /\ ObjectIdOf(task[p].record_id) \in Ids
               /\ docs'[ObjectIdOf(task[p].record_id)]
                    = Document(task[p].title, task[p].content,
                               task[p].embedding)]_vars

\* an update passed its existence check and obtained its embedding, a
\* concurrent delete removed the document, and the update ended with 404
C22_Witness ==
  \E p \in Tasks : \E q \in Tasks \ {p} :
    /\ task[p].kind = "update" /\ task[p].pc = "done"
    /\ task[p].calls = 1
    /\ task[p].resp.status = 404
    /\ ObjectIdOf(task[p].record_id) \notin Ids
    /\ task[q].kind = "delete" /\ task[q].pc = "done"
    /\ task[q].resp = SuccessResponse(ObjectIdOf(task[p].record_id))

\* C23: within one search the citation check comes first, the verse lookup
\* (made only for a citation) has returned a verse before the embedding is
\* requested, and generate_embedding has returned a vector before the
\* collection is read
C23_StepsInOrder ==
  [][\A p \in Tasks :
       task'[p].kind = "search" =>
         /\ task'[p].lookups > task[p].lookups
              => /\ task[p].citation_checks = 1
                 /\ IsBibleCitation(task[p].query)
                 /\ task[p].calls = 0 /\ task[p].reads = 0
         /\ task'[p].calls > task[p].calls
              => /\ task[p].citation_checks = 1
                 /\ task[p].reads = 0
                 /\ IF IsBibleCitation(task[p].query)
                    THEN task[p].lookups = 1 /\ task[p].bible_verse.found
                    ELSE task[p].lookups = 0
         /\ task'[p].reads > task[p].reads
              => /\ task[p].calls = 1
                 /\ task[p].embedding.ok]_vars

\* a search for a citation went through check, lookup, embedding and read
C23_Witness ==
  \E p \in Tasks :
    /\ task[p].kind = "search" /\ task[p].pc = "done"
    /\ task[p].citation_checks = 1 /\ task[p].lookups = 1
    /\ task[p].calls = 1 /\ task[p].reads = 1
    /\ task[p].bible_verse.found

\* C24 as stated: one search makes at most one request to the embedding
\* provider and reads the collection at most once
C24_OneRoundTrip ==
  \A p \in Tasks :
    task[p].kind = "search" => task[p].posts <= 1 /\ task[p].reads <= 1

\* C24: one search calls generate_embedding at most once and reads the
\* collection at most once; the one call sends at most retries + 1 requests
\* to the provider, all of them when the provider keeps failing, and a
\* search whose embedding failed reads nothing
C24_OneCallOneRead ==
  \A p \in Tasks :
    task[p].kind = "search" =>
      /\ task[p].calls <= 1 /\ task[p].reads <= 1
      /\ task[p].posts <= DefaultRetries + 1
      /\ task[p].calls = 0 => task[p].posts = 0
      /\ task[p].resp.kind = "embedding failed"
           => /\ task[p].reads = 0
              /\ task[p].posts =
                   IF IsBlank(task[p].embedded) THEN 0 ELSE DefaultRetries + 1

\* a search whose embedding arrived with the last request allowed, and that
\* then read the collection once
C24_Witness ==
  \E p \in Tasks :
    /\ task[p].kind = "search" /\ task[p].pc = "done"
    /\ task[p].calls = 1
    /\ task[p].posts = DefaultRetries + 1
    /\ task[p].reads = 1

\* C25: a stored document without an embedding is never handed over by the
\* cursor of search_similar, so it is never scored, and it is in no result
\* list, whatever the query vector and the limit; the documents with an
\* embedding fill the list as if it were not stored
C25_NoEmbeddingNoResult ==
  \A p \in Tasks :
    Ranked(p) =>
      \A id \in Ids :
        ~docs[id].has_embedding =>
          /\ \A i \in DOMAIN task[p].cursor : task[p].cursor[i] # id
          /\ \A i \in DOMAIN task[p].resp.results :
               task[p].resp.results[i].id # id
          /\ Len(task[p].resp.results)
               = Min(Clamped(task[p].limit),
                     Cardinality({o \in Ids \ {id} : docs[o].has_embedding}))

\* a search with room left in its list returned a document scored 0.0 and
\* not the stored document without an embedding
C25_Witness ==
  \E p \in Tasks :
    /\ Ranked(p)
    /\ \E id \in Ids : ~docs[id].has_embedding
    /\ Len(task[p].resp.results) < Clamped(task[p].limit)
    /\ \E i \in DOMAIN task[p].resp.results :
         task[p].resp.results[i].similarity_score = ZeroScore

\* C26: a stored vector whose length differs from the query vector's is
\* given no similarity score, and its document is in no ranked result
C26_LengthMismatchNotRanked ==
  \A p \in Tasks :
    Ranked(p) =>
      \A i \in DOMAIN task[p].resp.results :
        Len(docs[task[p].resp.results[i].id].embedding)
          = Len(task[p].embedding.vec)

\* C27: when the read of the collection fails during a search, the store
\* operation has been called exactly once, what search_similar raised to
\* the handler is the store's own exception, and the request ends as a
\* server failure with no result list: not as a success, an empty list or
\* a refusal of the request
C27_StoreFailureNotRetried ==
  \A p \in Tasks :
    (task[p].kind = "search" /\ task[p].store_error # "none") =>
      /\ task[p].pc = "done"
      /\ task[p].reads = 1
      /\ task[p].calls = 1
      /\ task[p].caught = task[p].store_error
      /\ task[p].resp = HTTPException(500, "Busca falhou")

\* the store failed under a search by citation whose verse was found and
\* embedded
C27_Witness ==
  \E p \in Tasks :
    /\ task[p].kind = "search" /\ task[p].pc = "done"
    /\ task[p].store_error = "OperationFailure"
    /\ task[p].bible_verse.found
    /\ task[p].embedding.ok
    /\ task[p].reads = 1
    /\ task[p].resp.status = 500

\* C28: within one call of generate_embedding the first request is sent
\* with the long timeout and every later one with the same shorter timeout,
\* and every request carries the same prompt: the whole input text with its
\* surrounding whitespace removed
C28_TimeoutsAndPayload ==
  \A p \in Tasks :
    /\ Len(emb[p].sent) <= emb[p].retries + 1
    /\ \A i \in DOMAIN emb[p].sent :
         /\ emb[p].sent[i].timeout
              = (IF i = 1 THEN FirstTimeout ELSE RetryTimeout)
         /\ emb[p].sent[i].prompt = Strip(emb[p].arg)
         /\ emb[p].sent[i].prompt = emb[p].sent[1].prompt
    /\ RetryTimeout < FirstTimeout

\* a call whose text came with surrounding whitespace has sent its third
\* request
C28_Witness ==
  \E p \in Tasks :
    /\ Len(emb[p].sent) = DefaultRetries + 1
    /\ emb[p].arg # Strip(emb[p].arg)
    /\ emb[p].sent[3].prompt = <<"x", " ", "y">>
    /\ emb[p].sent[1].timeout = 180
    /\ emb[p].sent[2].timeout = 60
    /\ emb[p].sent[3].timeout = 60

\* a step of task p that is the write of an add or of an update
Writes(p) ==
  /\ task[p].kind \in {"add", "update"}
  /\ task[p].pc \in {"insert", "write"}
  /\ task'[p].pc = "done"
  /\ docs' # docs

\* C29: add_record and update_record write only after generate_embedding
\* has returned a vector for the content; the step in which it returns None
\* ends the request and leaves the collection as it is; and the write sets
\* the title, the text and the embedding of one document together, to the
\* values of the request, touching no other document
C29_WriteAfterEmbedding ==
  [][\A p \in Tasks :
       /\ task'[p].pc \in {"insert", "write"} =>
            task'[p].calls = 1 /\ task'[p].embedding.ok
       /\ (task[p].pc = "check" /\ task'[p].resp.kind = "embedding failed") =>
            /\ docs' = docs
            /\ task'[p].pc = "done"
       /\ Writes(p) =>
            /\ task[p].calls = 1
            /\ task[p].embedding.ok
            /\ \E id \in DOMAIN docs' :
                 /\ task'[p].resp = SuccessResponse(id)
                 /\ docs'[id].title = task[p].title
                 /\ docs'[id].title_lower = TitleLower(task[p].title)
                 /\ docs'[id].extracted_text = task[p].content
                 /\ docs'[id].has_embedding
                 /\ docs'[id].embedding = task[p].embedding.vec
                 /\ task[p].title # <<>> /\ task[p].content # <<>>
                 /\ DOMAIN docs' = DOMAIN docs \cup {id}
                 /\ \A o \in DOMAIN docs \ {id} : docs'[o] = docs[o]
                 /\ task[p].kind = "add" <=> id \notin DOMAIN docs]_vars

\* an update has replaced the title of a stored document, and an add whose
\* embedding failed has ended without a document
C29_Witness ==
  \E p \in Tasks, q \in Tasks :
    /\ task[p].kind = "update" /\ task[p].pc = "done"
    /\ task[p].resp.kind = "success"
    /\ task[p].resp.ref \in Ids
    /\ docs[task[p].resp.ref].title = task[p].title
    /\ task[q].kind = "add" /\ task[q].pc = "done"
    /\ task[q].calls = 1
    /\ task[q].resp.kind = "embedding failed"
    /\ \A o \in Ids : docs[o].title # task[q].title

\* the numbers written by the spellings of chapters and verses
Written ==
  {<<<<"0">>, 0>>, <<<<"1">>, 1>>, <<<<"0", "7">>, 7>>, <<<<"4", "2">>, 42>>,
   <<<<"1", "5", "0">>, 150>>}

\* "jo c,v" and "jo c:v" for the written chapters c and verses v
JoCitations ==
  {[raw |-> <<"j", "o", " ">> \o c[1] \o <<sep>> \o v[1],
    chapter |-> c[2], verse |-> v[2]] :
     c \in Written, v \in Written, sep \in {",", ":"}}

\* the citation, stripped and in lower case, begins with the name
NamedBy(raw, name) ==
  LET c == Lower(Strip(raw))
  IN /\ Len(c) > Len(name)
     /\ SubSeq(c, 1, Len(name)) = name
     /\ IsSpace(c[Len(name) + 1])

\* the keys of the table under which get() gives 18
NamesOfJob ==
  {BookMappingEntries[i][1] :
     i \in {j \in DOMAIN BookMappingEntries :
              BookNumber(BookMappingEntries[j][1]) = 18}}

\* C30: "jo c,v" is looked up under book 43, never 18, with chapter c and
\* verse v, for every c and v; whatever is looked up under book 18 was
\* written with the name "jó", the only key of the table that gives 18
C30_JoIsJohn ==
  \A p \in Tasks :
    (task[p].kind = "parse" /\ task[p].pc = "done") =>
      /\ \A e \in JoCitations :
           task[p].raw = e.raw =>
             /\ task[p].lookups = 1
             /\ task[p].bible_verse.found
             /\ task[p].bible_verse.book_number = 43
             /\ task[p].bible_verse.chapter = e.chapter
             /\ task[p].bible_verse.verse = e.verse
      /\ NamedBy(task[p].raw, <<"j", "o">>) =>
           task[p].bible_verse.book_number # 18
      /\ task[p].bible_verse.book_number = 18 =>
           NamedBy(task[p].raw, <<"j", "ó">>)
      /\ NamesOfJob = {<<"j", "ó">>}

\* "jo 42:150" was looked up under book 43 while "jó 42:150" was looked up
\* under book 18
C30_Witness ==
  \E p \in Tasks, q \in Tasks :
    /\ task[p].kind = "parse" /\ task[p].pc = "done"
    /\ task[p].raw = <<"j", "o", " ", "4", "2", ":", "1", "5", "0">>
    /\ task[p].bible_verse.book_number = 43
    /\ task[p].bible_verse.chapter = 42
    /\ task[p].bible_verse.verse = 150
    /\ task[q].kind = "parse" /\ task[q].pc = "done"
    /\ task[q].raw = <<"j", "ó", " ", "4", "2", ":", "1", "5", "0">>
    /\ task[q].bible_verse.book_number = 18

====
